---- MODULE Spec2Model ----
(***************************************************************************)
(* Model of the execution and protocol layer of AutoCode:                  *)
(*   - PersistentJuliaRunner (src/src/autocode/julia_runner.py): one       *)
(*     interpreter subprocess, a call lock, a reader thread per call;      *)
(*   - AutoCodeMCPServer (src/src/autocode/mcp_autocode_server.py): the    *)
(*     JSON-RPC serve loop, the streaming handlers and their sessions.     *)
(* SpecRunner checks the runner, SpecServer the server.                    *)
(***************************************************************************)
EXTENDS Integers, Sequences, FiniteSets, TLC

\* ------------------------------------------------------------------ bounds
MaxCalls == 2
MaxProcs == 2

Calls == 1..MaxCalls
Pids  == 1..MaxProcs

\* ------------------------------------------------------- program constants
RESULT_MARKER == "<<<RESULT>>>"
ERROR_MARKER  == "<<<ERROR>>>"
WrapThreshold == 800
\* the characters of the wrapper of line 138 around the base64 text
WrapperChars == 76
\* the capacity of the pipe that is the worker's stdin (Popen, line 79)
PipeCapacity == 65536

NoProc == 0
NoCall == 0
NoRet  == <<"none">>
\* the call did not return: an exception left it
Raised == <<"raised">>

\* ------------------------------------------------------------ expressions
\* An expression is known by its text length, whether it holds a newline,
\* and what the interpreter does with it: the lines it prints, then the
\* value or the error it ends with; "hang" never ends.
Exprs ==
  { [name |-> "1+1",    nl |-> FALSE, len |-> 3,   prints |-> << >>,      ends |-> "value", text |-> "2"],
    [name |-> "error",  nl |-> FALSE, len |-> 12,  prints |-> << >>,      ends |-> "error", text |-> "boom"],
    [name |-> "script", nl |-> TRUE,  len |-> 20,  prints |-> <<"out">>,  ends |-> "value", text |-> "3"],
    [name |-> "perr",   nl |-> FALSE, len |-> 900, prints |-> <<"warn">>, ends |-> "error", text |-> "boom"],
    [name |-> "hang",   nl |-> FALSE, len |-> 14,  prints |-> << >>,      ends |-> "never", text |-> ""] }

\* base64 of the texts the interpreter can produce (RFC 4648)
B64Table ==
  { <<"2", "Mg==">>, <<"3", "Mw==">>, <<"boom", "Ym9vbQ==">>, <<"", "">> }

base64encode(s) == (CHOOSE p \in B64Table : p[1] = s)[2]

\* base64.b64decode is called without validate: the characters outside the
\* base64 alphabet are discarded before the rest is decoded.  The texts
\* with such characters that a worker of the model prints, and what is left
\* of them.
B64Discarded ==
  { <<"Mg$==", "Mg==">>, <<"@@@@", "">> }

discard_non_alphabet(b) ==
  IF \E p \in B64Discarded : p[1] = b
  THEN (CHOOSE p \in B64Discarded : p[1] = b)[2]
  ELSE b

\* base64.b64decode(b64).decode("utf-8", errors="replace"), and the
\* placeholder of the except branch when b64decode raises (the padding is
\* wrong)
b64decode_or_placeholder(b) ==
  IF \E p \in B64Table : p[2] = discard_non_alphabet(b)
  THEN (CHOOSE p \in B64Table : p[2] = discard_non_alphabet(b))[1]
  ELSE "<base64 decode error>"

\* A line of the worker's combined output: marker is the prefix the reader
\* tests with startswith, body the rest of the line.
Line(m, b) == [marker |-> m, body |-> b]

\* a line of bytes that are not UTF-8: reading it raises in the reader
Undecodable == "<undecodable>"

\* The texts an expression can print that begin with a marker or cannot be
\* decoded, as the reader sees them (lines 160-173)
PrintedLines ==
  { << "<<<RESULT>>>@@@@", RESULT_MARKER, "@@@@" >>,
    << "<<<RESULT>>>Mg$==", RESULT_MARKER, "Mg$==" >>,
    << "<<<RESULT>>>Mg", RESULT_MARKER, "Mg" >>,
    << "<<<ERROR>>>Mg", ERROR_MARKER, "Mg" >>,
    << "\\xff", Undecodable, "" >> }

as_line(text) ==
  IF \E p \in PrintedLines : p[1] = text
  THEN LET p == CHOOSE q \in PrintedLines : q[1] = text IN Line(p[2], p[3])
  ELSE Line("", text)

\* The bootstrap loop: eval(Meta.parse(line)), then println of the marker
\* and the base64 of string(result) or string(e).
BootstrapOutput(e) ==
  [i \in 1..Len(e.prints) |-> as_line(e.prints[i])]
    \o (IF e.ends = "value" THEN << Line(RESULT_MARKER, base64encode(e.text)) >>
        ELSE IF e.ends = "error" THEN << Line(ERROR_MARKER, base64encode(e.text)) >>
        ELSE << >>)

\* eval line 135: the test that decides whether the expression is wrapped
must_wrap_mutant(e) == e.len > WrapThreshold

must_wrap(e) == e.nl \/ e.len > WrapThreshold

\* eval lines 133-140: the line that is written to the worker's stdin
send_expr(e) ==
  IF must_wrap(e)
  THEN [wrapped |-> TRUE,  of |-> e]
  ELSE [wrapped |-> FALSE, of |-> e]

\* length of base64.b64encode of n bytes
b64_len(n) == 4 * ((n + 2) \div 3)

\* line 136: base64.b64encode puts no line break into its output, whatever
\* its length
b64encode_newlines(n) == 0

\* lines 138 and 144: the number of lines that send_expr + "\n" is on the
\* worker's stdin; a text with a newline in it is two lines or more
stdin_lines(sent) ==
  IF sent.wrapped THEN 1 + b64encode_newlines(sent.of.len)
  ELSE IF sent.of.nl THEN 2 ELSE 1

\* "\n".join(logs)
RECURSIVE join(_)
join(ls) ==
  IF Len(ls) = 0 THEN << >>
  ELSE IF Len(ls) = 1 THEN << ls[1] >>
  ELSE << ls[1], "\n" >> \o join(Tail(ls))

\* eval lines 200-204: the value returned when the reader set done
ReaderResultMutant(holder, lg) ==
  IF Len(lg) > 0
  THEN << TRUE, join(lg) >>
  ELSE << holder.ok, << holder.payload >> >>

ReaderResult(holder, lg) ==
  IF Len(lg) > 0 /\ holder.ok
  THEN << TRUE, join(lg) >>
  ELSE << holder.ok, << holder.payload >> >>

TimeoutMessage == "Timeout waiting for Julia response"

TimeoutResultMutant == << FALSE, << "Timeout waiting for response" >> >>

\* eval line 207
TimeoutResult == << FALSE, << TimeoutMessage >> >>

\* ---------------------------------------------------------------- state
VARIABLES
  self_proc,       \* PersistentJuliaRunner._proc: NoProc or a pid
  self_lock,       \* PersistentJuliaRunner._lock: NoCall or the holder
  bootstrap_path,  \* PersistentJuliaRunner._bootstrap_path
  files,           \* bootstrap files that exist on disk
  nprocs,          \* number of subprocesses the runner tried to start so far
  alive,           \* pids of the running subprocesses
  stdin,           \* per pid: lines written and not yet read by the worker
  stdout,          \* per pid: lines printed and not yet read by a reader
  worker,          \* per pid: the bootstrap loop: [state, todo, of]
  pc,              \* per call: position in eval / stop
  op,              \* per call: "eval" or "stop"
  expr,            \* per call: the expression
  proc,            \* per call: the local proc of eval
  result_holder,   \* per call: [done, ok, payload]
  logs,            \* per call: the captured lines
  done_evt,        \* per call: threading.Event
  reader,          \* per call: "none", "reading", "finished"
  ret,             \* per call: NoRet or <<success, text>>
  path,            \* per call: how eval returned
  saw_dead,        \* per call: the dead pid that is_alive() found, or NoProc
  sent_to,         \* per call: pid that got the expression, or NoProc
  after_timeout,   \* per call: it began after another call timed out
  got_line         \* per call: the marker line its reader stopped at

VARIABLES
  shutdown_flag,   \* AutoCodeMCPServer.shutdown_flag
  active_streams,  \* AutoCodeMCPServer.active_streams: callId -> [cancel, tool]
  threads,         \* the background threads of _start_stream, in start order
  serve_pc,        \* serve(): "read", "write", "writing", "exited" or "crashed"
  cur_req,         \* the request the serve loop is handling
  resp,            \* the response handle_request returned for it
  nread,           \* number of requests read so far
  db,              \* code_db._db: [functions, results] sizes
  log,             \* the audit log: number of records per kind
  log_writable,    \* whether log_path can be opened for append
  sys_stdout,      \* sys.stdout: number of complete lines written, per kind,
                   \* and the ids of the responses written, in order
  batch,           \* serve(): the batch line being handled: elements left, responses
  sys_stdin        \* sys.stdin: the ids of the requests read so far, in order

VARIABLES
  global_runner,   \* _global_runner: NoRunner or an instance of the runner
  global_lock,     \* _global_lock: NoThread or the holder
  runners,         \* the PersistentJuliaRunner instances constructed: [proc, lock]
  workers_alive,   \* the worker subprocesses that run
  nworkers,        \* number of worker subprocesses started so far
  callers          \* per thread: [pc, op, runner, proc]

globalVars == << global_runner, global_lock, runners, workers_alive, nworkers,
                 callers >>

VARIABLES
  wrap_expr,       \* eval: the argument expr, or NoExpr
  wrap_sent        \* eval: what was written to proc.stdin for it, or NoExpr

wrapVars == << wrap_expr, wrap_sent >>

VARIABLES
  functions,       \* CodeDatabase.functions: function_id -> Function.dependencies
  nfunctions,      \* number of function ids handed out so far
  store_result     \* the last operation of the store, its arguments and what it returned

VARIABLES
  tags,            \* CodeDatabase.tags: the global set of tags
  fn_tags,         \* function_id -> Function.tags
  modules,         \* the keys of CodeDatabase.modules
  fn_modules,      \* function_id -> Function.modules
  unit_tests,      \* function_id -> the number of unit tests of the function
  test_results     \* CodeDatabase.test_results

metaVars == << tags, fn_tags, modules, fn_modules, unit_tests, test_results >>

storeVars == << functions, nfunctions, store_result, metaVars >>

VARIABLES
  runs             \* per run-tests call on a background thread: its position,
                   \* its function, its locals and the results it appended

runVars == << runs >>

VARIABLES
  lock_path,       \* the lock file of the database: absent, or the acquirer
                   \* that created it
  db_path,         \* whether the database file exists
  lockers          \* per caller of save_db, load_db or vacuum_db: its
                   \* position, its FileLock and how its last call ended

lockVars == << lock_path, db_path, lockers >>

serverVars == << shutdown_flag, active_streams, threads, serve_pc, cur_req,
                 resp, nread, db, log, log_writable, sys_stdout, batch,
                 sys_stdin >>

runnerVars == << self_proc, self_lock, bootstrap_path, files, nprocs, alive,
                 stdin, stdout, worker, pc, op, expr, proc, result_holder,
                 logs, done_evt, reader, ret, path, saw_dead, sent_to,
                 after_timeout, got_line >>

vars == << runnerVars, serverVars, globalVars, wrapVars, storeVars, runVars,
          lockVars >>

osVars   == << nprocs, alive, stdin, stdout, worker, files >>
callVars == << pc, op, expr, proc, result_holder, logs, done_evt, reader,
               ret, path, saw_dead, sent_to, after_timeout, got_line >>

IdleWorker == [state |-> "idle", todo |-> << >>]
NoHolder   == [done |-> FALSE, ok |-> FALSE, payload |-> ""]

\* PersistentJuliaRunner.__init__: the constructor starts the first process
RunnerInit ==
  /\ self_proc = 1
  /\ self_lock = NoCall
  /\ bootstrap_path = 1
  /\ files = {1}
  /\ nprocs = 1
  /\ alive = {1}
  /\ stdin = [p \in Pids |-> << >>]
  /\ stdout = [p \in Pids |-> << >>]
  /\ worker = [p \in Pids |-> IdleWorker]
  /\ pc = [c \in Calls |-> "idle"]
  /\ op = [c \in Calls |-> "eval"]
  /\ expr = [c \in Calls |-> CHOOSE e \in Exprs : e.name = "1+1"]
  /\ proc = [c \in Calls |-> NoProc]
  /\ result_holder = [c \in Calls |-> NoHolder]
  /\ logs = [c \in Calls |-> << >>]
  /\ done_evt = [c \in Calls |-> FALSE]
  /\ reader = [c \in Calls |-> "none"]
  /\ ret = [c \in Calls |-> NoRet]
  /\ path = [c \in Calls |-> "none"]
  /\ saw_dead = [c \in Calls |-> NoProc]
  /\ sent_to = [c \in Calls |-> NoProc]
  /\ after_timeout = [c \in Calls |-> FALSE]
  /\ got_line = [c \in Calls |-> Line("", "")]

\* Calls are numbered in the order in which their threads enter the runner.
Earlier(c) == \A d \in 1..(c - 1) : pc[d] # "idle"

is_alive == self_proc # NoProc /\ self_proc \in alive

\* -------------------------------------------------------------- eval
\* A thread calls eval(e, timeout); line 122: if not self.is_alive()
EvalBegin(c, e) ==
  /\ pc[c] = "idle"
  /\ Earlier(c)
  /\ op' = [op EXCEPT ![c] = "eval"]
  /\ expr' = [expr EXCEPT ![c] = e]
  /\ after_timeout' = [after_timeout EXCEPT ![c] = \E d \in Calls : path[d] = "timeout"]
  /\ saw_dead' = [saw_dead EXCEPT ![c] = IF self_proc # NoProc /\ self_proc \notin alive
                                          THEN self_proc ELSE NoProc]
  /\ pc' = [pc EXCEPT ![c] = IF is_alive THEN "lock" ELSE "start"]
  /\ UNCHANGED << self_proc, self_lock, bootstrap_path, osVars, proc,
                  result_holder, logs, done_evt, reader, ret, path, sent_to,
                  got_line,
                  serverVars, globalVars, wrapVars, storeVars, runVars, lockVars >>

\* _start_process lines 48-49: if self._proc is not None: return
StartProcessTest(c) ==
  /\ pc[c] = "start"
  /\ pc' = [pc EXCEPT ![c] = IF self_proc # NoProc THEN "lock" ELSE "spawn"]
  /\ UNCHANGED << self_proc, self_lock, bootstrap_path, osVars, op, expr, proc,
                  result_holder, logs, done_evt, reader, ret, path, saw_dead,
                  sent_to, after_timeout, got_line,
                  serverVars, globalVars, wrapVars, storeVars, runVars, lockVars >>

\* _start_process lines 50-87: write the bootstrap file, Popen
StartProcessSpawn(c) ==
  /\ pc[c] = "spawn"
  /\ nprocs < MaxProcs
  /\ nprocs' = nprocs + 1
  /\ alive' = alive \cup {nprocs + 1}
  /\ files' = files \cup {nprocs + 1}
  /\ bootstrap_path' = nprocs + 1
  /\ self_proc' = nprocs + 1
  /\ pc' = [pc EXCEPT ![c] = "lock"]
  /\ UNCHANGED << self_lock, stdin, stdout, worker, op, expr, proc,
                  result_holder, logs, done_evt, reader, ret, path, saw_dead,
                  sent_to, after_timeout, got_line,
                  serverVars, globalVars, wrapVars, storeVars, runVars, lockVars >>

\* _start_process lines 70-87: the bootstrap file is written, then Popen
\* raises (the executable is missing, no process can be created); nothing
\* in _start_process or eval catches it
StartProcessFails(c) ==
  /\ pc[c] = "spawn"
  /\ nprocs < MaxProcs
  /\ nprocs' = nprocs + 1
  /\ files' = files \cup {nprocs + 1}
  /\ bootstrap_path' = nprocs + 1
  /\ ret' = [ret EXCEPT ![c] = Raised]
  /\ path' = [path EXCEPT ![c] = "raised"]
  /\ pc' = [pc EXCEPT ![c] = "returned"]
  /\ UNCHANGED << self_proc, self_lock, alive, stdin, stdout, worker, op, expr,
                  proc, result_holder, logs, done_evt, reader, saw_dead,
                  sent_to, after_timeout, got_line,
                  serverVars, globalVars, wrapVars, storeVars, runVars, lockVars >>

LockFreeMutant(c) == TRUE

\* with self._lock (lines 93, 126): the lock can be taken
LockFree(c) == self_lock = NoCall

\* lines 126-129: with self._lock: proc = self._proc; no process -> return
EvalLock(c) ==
  /\ pc[c] = "lock"
  /\ LockFree(c)
  /\ proc' = [proc EXCEPT ![c] = self_proc]
  /\ IF self_proc = NoProc
     THEN /\ ret' = [ret EXCEPT ![c] = << FALSE, << "Julia process not available" >> >>]
          /\ path' = [path EXCEPT ![c] = "unavailable"]
          /\ pc' = [pc EXCEPT ![c] = "returned"]
          /\ UNCHANGED self_lock
     ELSE /\ self_lock' = c
          /\ pc' = [pc EXCEPT ![c] = "write"]
          /\ UNCHANGED << ret, path >>
  /\ UNCHANGED << self_proc, bootstrap_path, osVars, op, expr, result_holder,
                  logs, done_evt, reader, saw_dead, sent_to, after_timeout, got_line,
                  serverVars, globalVars, wrapVars, storeVars, runVars, lockVars >>

\* the number of characters of the line that is written (lines 138, 144)
line_chars(sent) ==
  1 + (IF sent.wrapped THEN WrapperChars + b64_len(sent.of.len) ELSE sent.of.len)

\* the characters in the pipe that the worker has not read
RECURSIVE pending_chars(_)
pending_chars(q) ==
  IF Len(q) = 0 THEN 0 ELSE line_chars(Head(q)) + pending_chars(Tail(q))

\* lines 144-145: write and flush return when the pipe has taken the line:
\* there is room for it, or the worker is reading its stdin and takes it as
\* it comes; the write has no timeout
stdin_takes(p, sent) ==
  \/ pending_chars(stdin[p]) + line_chars(sent) <= PipeCapacity
  \/ (worker[p].state = "idle" /\ Len(stdin[p]) = 0)

\* lines 133-195: write send_expr and a newline, flush, start the reader;
\* writing to the pipe of a process that has exited raises (line 146)
EvalWrite(c) ==
  /\ pc[c] = "write"
  /\ proc[c] \in alive => stdin_takes(proc[c], send_expr(expr[c]))
  /\ IF proc[c] \in alive
     THEN /\ stdin' = [stdin EXCEPT ![proc[c]] = Append(@, send_expr(expr[c]))]
          /\ sent_to' = [sent_to EXCEPT ![c] = proc[c]]
          /\ reader' = [reader EXCEPT ![c] = "reading"]
          /\ pc' = [pc EXCEPT ![c] = "wait"]
          /\ UNCHANGED << ret, path, self_lock >>
     ELSE /\ ret' = [ret EXCEPT ![c] = << FALSE, << "Failed to write to Julia stdin" >> >>]
          /\ path' = [path EXCEPT ![c] = "write_failed"]
          /\ pc' = [pc EXCEPT ![c] = "returned"]
          /\ self_lock' = NoCall
          /\ UNCHANGED << stdin, sent_to, reader >>
  /\ UNCHANGED << self_proc, bootstrap_path, nprocs, alive, stdout, worker,
                  files, op, expr, proc, result_holder, logs, done_evt,
                  saw_dead, after_timeout, got_line,
                  serverVars, globalVars, wrapVars, storeVars, runVars, lockVars >>

\* lines 199-207: done_evt.wait returned True
EvalDone(c) ==
  /\ pc[c] = "wait"
  /\ done_evt[c]
  /\ IF result_holder[c].done
     THEN /\ ret' = [ret EXCEPT ![c] = ReaderResult(result_holder[c], logs[c])]
          /\ path' = [path EXCEPT ![c] = IF got_line[c].marker = Undecodable
                                          THEN "reader_error" ELSE "marker"]
     ELSE /\ ret' = [ret EXCEPT ![c] = TimeoutResult]
          /\ path' = [path EXCEPT ![c] = "eof"]
  /\ pc' = [pc EXCEPT ![c] = "returned"]
  /\ self_lock' = NoCall
  /\ UNCHANGED << self_proc, bootstrap_path, osVars, op, expr, proc,
                  result_holder, logs, done_evt, reader, saw_dead, sent_to,
                  after_timeout, got_line,
                  serverVars, globalVars, wrapVars, storeVars, runVars, lockVars >>

\* lines 199, 206-207: done_evt.wait returned False, the timeout elapsed
EvalTimeout(c) ==
  /\ pc[c] = "wait"
  /\ ~done_evt[c]
  /\ ret' = [ret EXCEPT ![c] = TimeoutResult]
  /\ path' = [path EXCEPT ![c] = "timeout"]
  /\ pc' = [pc EXCEPT ![c] = "returned"]
  /\ self_lock' = NoCall
  /\ UNCHANGED << self_proc, bootstrap_path, osVars, op, expr, proc,
                  result_holder, logs, done_evt, reader, saw_dead, sent_to,
                  after_timeout, got_line,
                  serverVars, globalVars, wrapVars, storeVars, runVars, lockVars >>

\* ------------------------------------------------------------ _reader
\* lines 185-190: the except branch of the reader
reader_error(holder) ==
  IF holder.done THEN holder
  ELSE [done |-> TRUE, ok |-> FALSE, payload |-> "Reader thread error"]

\* lines 159-184: one iteration of for line in proc.stdout.  The readers of
\* several calls iterate the same stream; which of them gets a line is not
\* determined.
ReaderLine(c) ==
  /\ reader[c] = "reading"
  /\ Len(stdout[proc[c]]) > 0
  /\ LET s == Head(stdout[proc[c]]) IN
       /\ stdout' = [stdout EXCEPT ![proc[c]] = Tail(@)]
       /\ IF s.marker = RESULT_MARKER \/ s.marker = ERROR_MARKER
          THEN /\ result_holder' = [result_holder EXCEPT ![c] =
                     [done |-> TRUE, ok |-> (s.marker = RESULT_MARKER),
                      payload |-> b64decode_or_placeholder(s.body)]]
               /\ reader' = [reader EXCEPT ![c] = "finished"]
               /\ done_evt' = [done_evt EXCEPT ![c] = TRUE]
               /\ got_line' = [got_line EXCEPT ![c] = s]
               /\ UNCHANGED logs
          ELSE IF s.marker = Undecodable
          THEN /\ result_holder' = [result_holder EXCEPT ![c] = reader_error(@)]
               /\ reader' = [reader EXCEPT ![c] = "finished"]
               /\ done_evt' = [done_evt EXCEPT ![c] = TRUE]
               /\ got_line' = [got_line EXCEPT ![c] = s]
               /\ UNCHANGED logs
          ELSE /\ logs' = [logs EXCEPT ![c] = Append(@, s.body)]
               /\ UNCHANGED << result_holder, reader, done_evt, got_line >>
  /\ UNCHANGED << self_proc, self_lock, bootstrap_path, nprocs, alive, stdin,
                  worker, files, pc, op, expr, proc, ret, path, saw_dead,
                  sent_to, after_timeout,
                  serverVars, globalVars, wrapVars, storeVars, runVars, lockVars >>

\* the stream is at end of file: the for loop ends, finally sets done_evt
ReaderEOF(c) ==
  /\ reader[c] = "reading"
  /\ Len(stdout[proc[c]]) = 0
  /\ proc[c] \notin alive
  /\ reader' = [reader EXCEPT ![c] = "finished"]
  /\ done_evt' = [done_evt EXCEPT ![c] = TRUE]
  /\ UNCHANGED << self_proc, self_lock, bootstrap_path, osVars, pc, op, expr,
                  proc, result_holder, logs, ret, path, saw_dead, sent_to,
                  after_timeout, got_line,
                  serverVars, globalVars, wrapVars, storeVars, runVars, lockVars >>

\* ---------------------------------------------------------------- stop
StopBegin(c) ==
  /\ pc[c] = "idle"
  /\ Earlier(c)
  /\ op' = [op EXCEPT ![c] = "stop"]
  /\ pc' = [pc EXCEPT ![c] = "stop_lock"]
  /\ UNCHANGED << self_proc, self_lock, bootstrap_path, osVars, expr, proc,
                  result_holder, logs, done_evt, reader, ret, path, saw_dead,
                  sent_to, after_timeout, got_line,
                  serverVars, globalVars, wrapVars, storeVars, runVars, lockVars >>

\* lines 93-106: with self._lock; terminate, wait, kill
StopTerminate(c) ==
  /\ pc[c] = "stop_lock"
  /\ LockFree(c)
  /\ IF self_proc = NoProc
     THEN /\ pc' = [pc EXCEPT ![c] = "returned"]
          /\ UNCHANGED << self_lock, alive, worker >>
     ELSE /\ self_lock' = c
          /\ alive' = alive \ {self_proc}
          /\ worker' = [worker EXCEPT ![self_proc] = IdleWorker]
          /\ pc' = [pc EXCEPT ![c] = "stop_clear"]
  /\ proc' = [proc EXCEPT ![c] = self_proc]
  /\ UNCHANGED << self_proc, bootstrap_path, nprocs, stdin, stdout, files, op,
                  expr, result_holder, logs, done_evt, reader, ret, path,
                  saw_dead, sent_to, after_timeout, got_line,
                  serverVars, globalVars, wrapVars, storeVars, runVars, lockVars >>

\* line 107: self._proc = None
StopClear(c) ==
  /\ pc[c] = "stop_clear"
  /\ self_proc' = NoProc
  /\ pc' = [pc EXCEPT ![c] = "stop_remove"]
  /\ UNCHANGED << self_lock, bootstrap_path, osVars, op,
                  expr, proc, result_holder, logs, done_evt, reader, ret, path,
                  saw_dead, sent_to, after_timeout, got_line,
                  serverVars, globalVars, wrapVars, storeVars, runVars, lockVars >>

\* lines 109-112: the file that self._bootstrap_path names at this moment
remove_path(fs, b) == fs \ {b}

\* lines 108-114: the bootstrap file is removed, the lock is released and
\* stop returns
StopRemove(c) ==
  /\ pc[c] = "stop_remove"
  /\ files' = remove_path(files, bootstrap_path)
  /\ self_lock' = NoCall
  /\ pc' = [pc EXCEPT ![c] = "returned"]
  /\ UNCHANGED << self_proc, bootstrap_path, nprocs, alive, stdin, stdout, worker,
                  op, expr, proc, result_holder, logs, done_evt, reader, ret, path,
                  saw_dead, sent_to, after_timeout, got_line,
                  serverVars, globalVars, wrapVars, storeVars, runVars, lockVars >>

\* ------------------------------------------------- the worker subprocess
\* bootstrap lines 53-63: readline(stdin), eval(Meta.parse(line))
WorkerTake(p) ==
  /\ p \in alive
  /\ worker[p].state = "idle"
  /\ Len(stdin[p]) > 0
  /\ LET e == Head(stdin[p]).of IN
       worker' = [worker EXCEPT ![p] =
         IF e.ends = "never" THEN [state |-> "hung", todo |-> << >>]
         ELSE [state |-> "busy", todo |-> BootstrapOutput(e)]]
  /\ stdin' = [stdin EXCEPT ![p] = Tail(@)]
  /\ UNCHANGED << self_proc, self_lock, bootstrap_path, nprocs, alive, stdout,
                  files, callVars,
                  serverVars, globalVars, wrapVars, storeVars, runVars, lockVars >>

\* bootstrap lines 64-68 and the script's own prints: one line is printed
WorkerEmit(p) ==
  /\ p \in alive
  /\ worker[p].state = "busy"
  /\ stdout' = [stdout EXCEPT ![p] = Append(@, Head(worker[p].todo))]
  /\ worker' = [worker EXCEPT ![p] =
       IF Len(worker[p].todo) = 1 THEN IdleWorker
       ELSE [state |-> "busy", todo |-> Tail(worker[p].todo)]]
  /\ UNCHANGED << self_proc, self_lock, bootstrap_path, nprocs, alive, stdin,
                  files, callVars,
                  serverVars, globalVars, wrapVars, storeVars, runVars, lockVars >>

\* the subprocess is killed from outside
ExternalKill(p) ==
  /\ p \in alive
  /\ alive' = alive \ {p}
  /\ worker' = [worker EXCEPT ![p] = IdleWorker]
  /\ UNCHANGED << self_proc, self_lock, bootstrap_path, nprocs, stdin, stdout,
                  files, callVars,
                  serverVars, globalVars, wrapVars, storeVars, runVars, lockVars >>

\* ==================================================== AutoCodeMCPServer
\* ------------------------------------------------------------------ bounds
MaxRequests == 2
MaxUnits    == 1
MaxId       == 1
MaxBatch    == 2

\* request ids of streaming calls; NoId is a request without id (None)
NoId == 0
Ids  == 0..MaxId

\* the argument names a request can carry
AllArgs == {"description", "function_id", "name", "code"}

\* _register_tools: the registered tools the model draws from
Tools ==
  [ generate_function      |-> [required |-> {"description"}, streaming |-> TRUE,
                                stream_handler |-> "_stream_generate_function", adds |-> TRUE],
    mcp_autocode_run_tests |-> [required |-> {}, streaming |-> TRUE,
                                stream_handler |-> "_stream_run_tests", adds |-> FALSE],
    property_test          |-> [required |-> {"function_id"}, streaming |-> TRUE,
                                stream_handler |-> "_stream_property_test", adds |-> FALSE],
    add_function           |-> [required |-> {"name", "description", "code"}, streaming |-> FALSE,
                                stream_handler |-> "none", adds |-> TRUE],
    list_functions         |-> [required |-> {}, streaming |-> FALSE,
                                stream_handler |-> "none", adds |-> FALSE] ]

ToolNames == DOMAIN Tools

SimpleMethods == {"initialize", "ping", "tools/list", "no/such/method"}

TerminalEvents == {"complete", "error", "cancelled"}

\* raises: the arguments are such that the tool's handler raises
NoReq  == [id |-> NoId, method |-> "none", name |-> "", arguments |-> {},
           stream |-> FALSE, callId |-> NoId, raises |-> FALSE]
NoResp == [id |-> NoId, ok |-> TRUE, code |-> 0, result |-> [none |-> TRUE]]

\* serve line 784: no batch line is being handled
NoBatch == [on |-> FALSE, size |-> 0, left |-> 0, reqs |-> << >>, resps |-> << >>]

\* _success(id_, result)
Success(id, result) == [id |-> id, ok |-> TRUE, code |-> 0, result |-> result]

\* _error_response(id_, code, message)
ErrorResponse(id, code, message) ==
  [id |-> id, ok |-> FALSE, code |-> code, result |-> [message |-> message]]

\* log(event, data): one record appended, a failure to write is swallowed
Log(l, kind) == IF log_writable THEN [l EXCEPT ![kind] = @ + 1] ELSE l

\* the id the client gives to its n-th request when the request is not a
\* streaming call
ReqId(n) == 10 + n

ServerInit ==
  /\ shutdown_flag = FALSE
  /\ active_streams = << >>
  /\ threads = << >>
  /\ serve_pc = "read"
  /\ cur_req = NoReq
  /\ resp = NoResp
  /\ nread = 0
  /\ db = [functions |-> 0, results |-> 0]
  /\ log_writable = TRUE
  /\ log = [request |-> 0, stream_event |-> 0,
            other |-> IF log_writable THEN 1 ELSE 0]
  /\ sys_stdout = [responses |-> 0, events |-> 0, ids |-> << >>]
  /\ batch = NoBatch
  /\ sys_stdin = << >>

\* _is_cancelled(call_id)
is_cancelled(streams, call_id) ==
  call_id \in DOMAIN streams /\ streams[call_id].cancel

\* tools/cancel lines 762-763: the sessions after the request
cancel_streams_mutant(streams, call_id) ==
  [k \in DOMAIN streams |-> [streams[k] EXCEPT !.cancel = TRUE]]

cancel_streams(streams, call_id) ==
  IF call_id \in DOMAIN streams
  THEN [streams EXCEPT ![call_id].cancel = TRUE]
  ELSE streams

\* tools/cancel lines 765-766: the result of the request
cancel_result(streams, call_id) ==
  IF call_id \in DOMAIN streams
  THEN [cancelled |-> TRUE, callId |-> call_id]
  ELSE [cancelled |-> FALSE, reason |-> "not_found", callId |-> call_id]

\* _start_stream line 704: the session entry is written under key rid
start_stream_entry(streams, rid, name) ==
  [k \in (DOMAIN streams) \cup {rid} |->
     IF k = rid THEN [cancel |-> FALSE, tool |-> name] ELSE streams[k]]

\* runner() line 711: self.active_streams.pop(rid, None)
pop_stream_mutant(streams, rid) ==
  IF rid \in DOMAIN streams /\ streams[rid].cancel THEN streams
  ELSE [k \in (DOMAIN streams) \ {rid} |-> streams[k]]

pop_stream(streams, rid) ==
  [k \in (DOMAIN streams) \ {rid} |-> streams[k]]

\* _start_stream lines 706-714: the thread that runs tool.stream_handler
NewThread(rid, name) ==
  [rid |-> rid, tool |-> name,
   pc |-> (IF name = "generate_function" THEN "g_start"
           ELSE IF name = "mcp_autocode_run_tests" THEN "r_setup" ELSE "p_setup"),
   i |-> 1, total |-> 0,
   wr |-> "idle", ev |-> "",
   emitted |-> << >>, saw_cancel |-> FALSE, cancel_acked |-> FALSE,
   flagged_at |-> 0, stored |-> 0, outcome |-> "running"]

\* the thread has ended; outcome records, for the properties, how its
\* handler returned: after a terminal event or by an exception
EndedThread(rid, name, outcome) ==
  [rid |-> rid, tool |-> name, pc |-> "ended", i |-> 0, total |-> 0,
   wr |-> "idle", ev |-> "",
   emitted |-> << >>, saw_cancel |-> FALSE, cancel_acked |-> FALSE,
   flagged_at |-> 0, stored |-> 0, outcome |-> outcome]

Terminals(h) == { k \in 1..Len(threads[h].emitted) : threads[h].emitted[k] \in TerminalEvents }

Running(h) == threads[h].pc # "ended"

\* lines 567-569, 639-641, 666-668: what a handler does next when its
\* cancellation check finds the flag set
cancelled_next_mutant(tool) ==
  IF tool = "generate_function" THEN "g_chunk"
  ELSE IF tool = "mcp_autocode_run_tests" THEN "r_test" ELSE "p_chunk"

cancelled_next(tool) == "emit_cancelled"

\* ----------------------------------------------------------- serve loop
\* serve line 785: responses = [self.handle_request(r) for r in req]; the
\* response of the next element joins the list
batch_responses_mutant(resps, r) == << r >> \o resps

batch_responses(resps, r) == Append(resps, r)

\* serve lines 786 and 790-791: the ids of the responses in the line that is
\* written: the list of a batch, or the one response
written_ids_mutant(b, r) ==
  IF b.on THEN [i \in 1..Len(b.resps) |-> b.resps[i].id] ELSE << NoId >>

written_ids(b, r) ==
  IF b.on THEN [i \in 1..Len(b.resps) |-> b.resps[i].id] ELSE << r.id >>

\* serve lines 774-789 with handle_request lines 718-720: a request, the
\* line read or the next element of the batch line, is given to
\* handle_request, which logs it and returns r.  nread counts the requests
\* and the lines that hold no request.
ReadCommon(req, r) ==
  /\ serve_pc \in {"read", "batch"}
  /\ nread < MaxRequests
  /\ nread' = nread + 1
  /\ cur_req' = req
  /\ resp' = r
  /\ serve_pc' = IF serve_pc = "batch" /\ batch.left > 1 THEN "batch" ELSE "write"
  /\ batch' = IF serve_pc = "batch"
              THEN [batch EXCEPT !.left = @ - 1, !.reqs = Append(@, req.id),
                                 !.resps = batch_responses(@, r)]
              ELSE batch
  /\ sys_stdin' = Append(sys_stdin, req.id)
  /\ UNCHANGED << log_writable, sys_stdout, runnerVars, globalVars, wrapVars, storeVars, runVars, lockVars >>

\* serve lines 778-783: the line is not JSON; the parse error is the
\* response, its log record follows the write
HandleParseError ==
  /\ serve_pc = "read"
  /\ nread < MaxRequests
  /\ nread' = nread + 1
  /\ cur_req' = [NoReq EXCEPT !.method = "<malformed>"]
  /\ resp' = ErrorResponse(NoId, -32700, "Parse error")
  /\ serve_pc' = "write"
  /\ sys_stdin' = Append(sys_stdin, NoId)
  /\ UNCHANGED << shutdown_flag, active_streams, threads, db, log, log_writable,
                  sys_stdout, batch, runnerVars, globalVars, wrapVars, storeVars, runVars, lockVars >>

\* serve lines 784-785: the line is a JSON array of k elements
BatchBegin(k) ==
  /\ serve_pc = "read"
  /\ nread + k <= MaxRequests
  /\ k = 0 => nread < MaxRequests
  /\ nread' = IF k = 0 THEN nread + 1 ELSE nread
  /\ serve_pc' = IF k = 0 THEN "write" ELSE "batch"
  /\ batch' = [on |-> TRUE, size |-> k, left |-> k, reqs |-> << >>, resps |-> << >>]
  /\ UNCHANGED << shutdown_flag, active_streams, threads, cur_req, resp, db, log,
                  log_writable, sys_stdin, sys_stdout, runnerVars, globalVars, wrapVars, storeVars, runVars, lockVars >>

\* handle_request lines 718-719: the line, or the element of the batch, is
\* JSON but not an object; req.get raises outside the try of
\* handle_request and nothing in serve catches it
HandleNonObject ==
  /\ serve_pc \in {"read", "batch"}
  /\ nread < MaxRequests
  /\ nread' = nread + 1
  /\ cur_req' = [NoReq EXCEPT !.method = "<not an object>"]
  /\ resp' = NoResp
  /\ serve_pc' = "crashed"
  /\ UNCHANGED << shutdown_flag, active_streams, threads, db, log, log_writable, sys_stdin,
                  sys_stdout, batch, runnerVars, globalVars, wrapVars, storeVars, runVars, lockVars >>

\* handle_request lines 722-738 and 767: initialize, ping, tools/list and an
\* unknown method
HandleSimple(m) ==
  /\ ReadCommon([NoReq EXCEPT !.id = ReqId(nread + 1), !.method = m],
                IF m = "initialize" THEN Success(ReqId(nread + 1), [protocolVersion |-> "2024-11-05"])
                ELSE IF m = "ping" THEN Success(ReqId(nread + 1), [pong |-> TRUE])
                ELSE IF m = "tools/list" THEN Success(ReqId(nread + 1), [tools |-> ToolNames])
                ELSE ErrorResponse(ReqId(nread + 1), -32601, "Unknown method"))
  /\ log' = Log(log, "request")
  /\ UNCHANGED << shutdown_flag, active_streams, threads, db >>

\* handle_request lines 728-730
HandleShutdown ==
  /\ ReadCommon([NoReq EXCEPT !.id = ReqId(nread + 1), !.method = "shutdown"],
                Success(ReqId(nread + 1), [empty |-> TRUE]))
  /\ shutdown_flag' = TRUE
  /\ log' = Log(log, "request")
  /\ UNCHANGED << active_streams, threads, db >>

\* handle_request lines 745-748: a required argument is missing
missing_required_mutant(name, arguments) == FALSE

missing_required(name, arguments) ==
  \E r \in Tools[name].required : r \notin arguments

\* handle_request lines 751-752: stream is asked of a tool that cannot stream
cannot_stream_mutant(name, stream_flag) == FALSE

cannot_stream(name, stream_flag) ==
  stream_flag /\ (~Tools[name].streaming \/ Tools[name].stream_handler = "none")

\* handle_request lines 743-753: the checks of a tools/call, in their order
rejection(name, arguments, stream_flag) ==
  IF name \notin ToolNames THEN "unknown_tool"
  ELSE IF missing_required(name, arguments) THEN "missing_argument"
  ELSE IF cannot_stream(name, stream_flag) THEN "no_streaming"
  ELSE "none"

\* handle_request lines 744, 748, 753: the error code of a rejected call
rejection_code_mutant(kind) == -32602

rejection_code(kind) == IF kind = "unknown_tool" THEN -32601 ELSE -32602

\* handle_request lines 768-771: the response when the handler raised
handler_fault_mutant(rid) == Success(rid, [content |-> "none"])

handler_fault(rid) == ErrorResponse(rid, -32000, "Exception")

\* serve lines 792-794: where the loop goes after the write
after_write_mutant(flag) == "read"

after_write(flag) == IF flag THEN "exited" ELSE "read"

\* handle_request lines 739-750 and 753: unknown tool, missing required
\* argument, stream asked of a tool that cannot stream
HandleCallRejected(rid, name, arguments, stream_flag) ==
  /\ rejection(name, arguments, stream_flag) # "none"
  /\ ReadCommon([NoReq EXCEPT !.id = rid, !.method = "tools/call", !.name = name,
                              !.arguments = arguments, !.stream = stream_flag],
                LET kind == rejection(name, arguments, stream_flag)
                IN  ErrorResponse(rid, rejection_code(kind),
                      IF kind = "unknown_tool" THEN "Unknown tool"
                      ELSE IF kind = "missing_argument" THEN "Missing required argument"
                      ELSE "does not support streaming"))
  /\ log' = Log(log, "request")
  /\ UNCHANGED << shutdown_flag, active_streams, threads, db >>

\* handle_request lines 754-755 with _start_stream: the session is entered,
\* the thread is started, the acknowledgement is returned
HandleCallStream(rid, name, arguments) ==
  /\ rejection(name, arguments, TRUE) = "none"
  /\ ReadCommon([NoReq EXCEPT !.id = rid, !.method = "tools/call", !.name = name,
                              !.arguments = arguments, !.stream = TRUE],
                Success(rid, [streaming |-> TRUE]))
  /\ active_streams' = start_stream_entry(active_streams, rid, name)
  /\ threads' = Append(threads, NewThread(rid, name))
  /\ log' = Log(Log(log, "request"), "other")
  /\ UNCHANGED << shutdown_flag, db >>

\* handle_request lines 756-758 and 768-771: the synchronous handler runs on
\* the serve thread; it returns a result or raises
HandleCallSync(name, arguments, raises, stored) ==
  /\ rejection(name, arguments, FALSE) = "none"
  /\ stored => Tools[name].adds
  /\ ~Tools[name].adds => ~raises \/ ~stored
  /\ ReadCommon([NoReq EXCEPT !.id = ReqId(nread + 1), !.method = "tools/call",
                              !.name = name, !.arguments = arguments, !.raises = raises],
                IF raises THEN handler_fault(ReqId(nread + 1))
                ELSE Success(ReqId(nread + 1), [content |-> name]))
  /\ db' = IF stored THEN [db EXCEPT !.functions = @ + 1] ELSE db
  /\ log' = Log(Log(log, "request"), "other")
  /\ UNCHANGED << shutdown_flag, active_streams, threads >>

\* handle_request lines 759-766.  cancel_acked records, for the properties,
\* the calls whose cancellation was answered with cancelled: true before
\* they emitted a terminal event; flagged_at records how many events the
\* call had emitted when its flag was first set (0: it was not set), and
\* stored counts the changes the call made to the store after that.
HandleCancel(call_id) ==
  /\ ReadCommon([NoReq EXCEPT !.id = ReqId(nread + 1), !.method = "tools/cancel",
                              !.callId = call_id],
                Success(ReqId(nread + 1), cancel_result(active_streams, call_id)))
  /\ active_streams' = cancel_streams(active_streams, call_id)
  /\ log' = (IF call_id \in DOMAIN active_streams
             THEN Log(Log(log, "request"), "other") ELSE Log(log, "request"))
  /\ threads' = [h \in 1..Len(threads) |->
       IF /\ call_id \in DOMAIN active_streams
          /\ threads[h].rid = call_id /\ Running(h) /\ Terminals(h) = {}
       THEN [threads[h] EXCEPT !.cancel_acked = TRUE,
                               !.flagged_at = IF @ = 0 THEN Len(threads[h].emitted) + 1 ELSE @]
       ELSE IF /\ call_id \in DOMAIN active_streams
               /\ threads[h].rid = call_id /\ Running(h) /\ threads[h].flagged_at = 0
       THEN [threads[h] EXCEPT !.flagged_at = Len(threads[h].emitted) + 1]
       ELSE threads[h]]
  /\ UNCHANGED << shutdown_flag, db >>

\* serve line 791 with _write line 65: sys.stdout.write is entered with the
\* line of the response; no lock is taken
ServeWriteBegin ==
  /\ serve_pc = "write"
  /\ serve_pc' = "writing"
  /\ UNCHANGED << shutdown_flag, active_streams, threads, cur_req, resp, nread,
                  db, log, log_writable, sys_stdin, sys_stdout, batch, runnerVars, globalVars, wrapVars, storeVars, runVars, lockVars >>

\* serve lines 780-794 with _write lines 65-66: the response is written in
\* full (for a batch line, the list of the responses); a parse error and a
\* batch are logged after the write; the loop ends after a shutdown request
ServeWrite ==
  /\ serve_pc = "writing"
  /\ serve_pc' = after_write(shutdown_flag)
  /\ sys_stdout' = [sys_stdout EXCEPT !.responses = @ + 1,
                                      !.ids = @ \o written_ids(batch, resp)]
  /\ log' = LET l == IF batch.on \/ cur_req.method = "<malformed>"
                     THEN Log(log, "other") ELSE log
            IN IF shutdown_flag THEN Log(l, "other") ELSE l
  /\ cur_req' = NoReq
  /\ resp' = NoResp
  /\ batch' = NoBatch
  /\ UNCHANGED << shutdown_flag, active_streams, threads, nread, db,
                  log_writable, sys_stdin, runnerVars, globalVars, wrapVars, storeVars, runVars, lockVars >>

\* serve line 774: standard input is at end of file
ServeEOF ==
  /\ serve_pc = "read"
  /\ serve_pc' = "exited"
  /\ UNCHANGED << shutdown_flag, active_streams, threads, cur_req, resp, nread,
                  db, log, log_writable, sys_stdin, sys_stdout, batch, runnerVars, globalVars, wrapVars, storeVars, runVars, lockVars >>

\* ------------------------------------------------------ stream threads
\* The threads are daemon threads: they run while the process does.
ThreadAt(h, where) ==
  /\ h \in 1..Len(threads)
  /\ serve_pc \notin {"exited", "crashed"}
  /\ threads[h].pc = where
  /\ threads[h].wr = "idle"

ThreadFrame == UNCHANGED << shutdown_flag, serve_pc, cur_req, resp, nread,
                            log_writable, sys_stdin, sys_stdout, batch, runnerVars, globalVars, wrapVars, storeVars, runVars, lockVars >>

\* _emit_stream lines 691-696 with _write line 65: sys.stdout.write is
\* entered with the line of the event; no lock is taken.  The handler's own
\* state is already that of its next position, next.
Emit(h, event, next) ==
  /\ threads' = [threads EXCEPT ![h].wr = "writing", ![h].ev = event, ![h].pc = next]
  /\ UNCHANGED log

Goto(h, next) == threads' = [threads EXCEPT ![h].pc = next]

\* _write lines 65-66 in a handler thread: the line is written in full and
\* flushed
WriteEnd(h) ==
  /\ h \in 1..Len(threads)
  /\ serve_pc \notin {"exited", "crashed"}
  /\ threads[h].wr = "writing"
  /\ threads' = [threads EXCEPT ![h].wr = "written", ![h].emitted = Append(@, threads[h].ev)]
  /\ sys_stdout' = [sys_stdout EXCEPT !.events = @ + 1]
  /\ UNCHANGED << shutdown_flag, active_streams, serve_pc, cur_req, resp, nread,
                  db, log, log_writable, sys_stdin, batch, runnerVars, globalVars, wrapVars, storeVars, runVars, lockVars >>

\* _emit_stream line 697: the stream_event record is logged
EmitLog(h) ==
  /\ h \in 1..Len(threads)
  /\ serve_pc \notin {"exited", "crashed"}
  /\ threads[h].wr = "written"
  /\ threads' = [threads EXCEPT ![h].wr = "idle", ![h].ev = ""]
  /\ log' = Log(log, "stream_event")
  /\ UNCHANGED << active_streams, db >>
  /\ ThreadFrame

\* _stream_generate_function lines 557-565: the first chunk is emitted; then
\* generate_julia_function raises inside the try; or result.parsed /
\* parsed.code raise outside of it; or the code has total lines
GenStart(h, outcome, total) ==
  /\ ThreadAt(h, "g_start")
  /\ \/ /\ outcome = "raise_in_try" /\ total = 0
        /\ Emit(h, "chunk", "emit_error")
     \/ /\ outcome = "raise" /\ total = 0
        /\ Emit(h, "chunk", "finally")
     \/ /\ outcome = "ok"
        /\ threads' = [threads EXCEPT ![h].wr = "writing", ![h].ev = "chunk",
                                      ![h].total = total, ![h].i = 1, ![h].pc = "g_check"]
        /\ UNCHANGED log
  /\ UNCHANGED << active_streams, db >>
  /\ ThreadFrame

\* lines 566-567: the loop test and the cancellation check
GenCheck(h) ==
  /\ ThreadAt(h, "g_check")
  /\ IF threads[h].i > threads[h].total THEN Goto(h, "g_add")
     ELSE IF is_cancelled(active_streams, threads[h].rid)
          THEN threads' = [threads EXCEPT ![h].saw_cancel = TRUE,
                                         ![h].pc = cancelled_next(threads[h].tool)]
          ELSE Goto(h, "g_chunk")
  /\ UNCHANGED << active_streams, db, log >>
  /\ ThreadFrame

\* lines 570-571
GenChunk(h) ==
  /\ ThreadAt(h, "g_chunk")
  /\ threads' = [threads EXCEPT ![h].wr = "writing", ![h].ev = "chunk",
                                ![h].i = @ + 1, ![h].pc = "g_check"]
  /\ UNCHANGED << active_streams, db, log >>
  /\ ThreadFrame

\* lines 572-573: code_db.add_function stores the function and saves the
\* database; it can raise before or after the function is stored
GenAdd(h, raises, stored) ==
  /\ ThreadAt(h, "g_add")
  /\ ~raises => stored
  /\ db' = IF stored THEN [db EXCEPT !.functions = @ + 1] ELSE db
  /\ threads' = [threads EXCEPT ![h].pc = IF raises THEN "finally" ELSE "g_stored",
                                ![h].stored = IF stored /\ threads[h].flagged_at # 0
                                              THEN @ + 1 ELSE @]
  /\ UNCHANGED << active_streams, log >>
  /\ ThreadFrame

\* line 574
GenStored(h) ==
  /\ ThreadAt(h, "g_stored")
  /\ Emit(h, "chunk", "emit_complete")
  /\ UNCHANGED << active_streams, db >>
  /\ ThreadFrame

\* _stream_run_tests lines 585-635: the functions and tests are collected
\* and the old results cleared; an exception goes to the except clause
RunSetup(h, outcome, total) ==
  /\ ThreadAt(h, "r_setup")
  /\ \/ /\ outcome = "raise_in_try" /\ total = 0
        /\ Goto(h, "emit_error")
        /\ UNCHANGED db
     \/ /\ outcome = "ok" /\ total = 0
        /\ Goto(h, "emit_complete")
        /\ UNCHANGED db
     \/ /\ outcome = "ok" /\ total > 0
        /\ threads' = [threads EXCEPT ![h].total = total, ![h].i = 1, ![h].pc = "r_check"]
        /\ db' = [db EXCEPT !.results = 0]
  /\ UNCHANGED << active_streams, log >>
  /\ ThreadFrame

\* lines 637-639
RunCheck(h) ==
  /\ ThreadAt(h, "r_check")
  /\ IF threads[h].i > threads[h].total THEN Goto(h, "emit_complete")
     ELSE IF is_cancelled(active_streams, threads[h].rid)
          THEN threads' = [threads EXCEPT ![h].saw_cancel = TRUE,
                                         ![h].pc = cancelled_next(threads[h].tool)]
          ELSE Goto(h, "r_test")
  /\ UNCHANGED << active_streams, db, log >>
  /\ ThreadFrame

\* lines 642-646: the test runs and its result is appended
RunTest(h, raises) ==
  /\ ThreadAt(h, "r_test")
  /\ IF raises THEN Goto(h, "emit_error") /\ UNCHANGED db
     ELSE /\ threads' = [threads EXCEPT ![h].pc = "r_chunk",
                                        ![h].stored = IF threads[h].flagged_at # 0
                                                      THEN @ + 1 ELSE @]
          /\ db' = [db EXCEPT !.results = @ + 1]
  /\ UNCHANGED << active_streams, log >>
  /\ ThreadFrame

\* lines 647-648: the chunk is emitted, then code_db.save_db() saves the
\* database or raises
RunChunk(h, raises) ==
  /\ ThreadAt(h, "r_chunk")
  /\ threads' = [threads EXCEPT ![h].wr = "writing", ![h].ev = "chunk",
                                ![h].i = IF raises THEN @ ELSE @ + 1,
                                ![h].pc = IF raises THEN "emit_error" ELSE "r_check"]
  /\ UNCHANGED << active_streams, db, log >>
  /\ ThreadFrame

\* _stream_property_test lines 654-664
PropSetup(h, outcome, total) ==
  /\ ThreadAt(h, "p_setup")
  /\ \/ /\ outcome = "raise_in_try" /\ total = 0
        /\ Goto(h, "emit_error")
     \/ /\ outcome = "ok"
        /\ threads' = [threads EXCEPT ![h].total = total, ![h].i = 1, ![h].pc = "p_check"]
  /\ UNCHANGED << active_streams, db, log >>
  /\ ThreadFrame

\* lines 665-666
PropCheck(h) ==
  /\ ThreadAt(h, "p_check")
  /\ IF threads[h].i > threads[h].total THEN Goto(h, "emit_complete")
     ELSE IF is_cancelled(active_streams, threads[h].rid)
          THEN threads' = [threads EXCEPT ![h].saw_cancel = TRUE,
                                         ![h].pc = cancelled_next(threads[h].tool)]
          ELSE Goto(h, "p_chunk")
  /\ UNCHANGED << active_streams, db, log >>
  /\ ThreadFrame

\* line 669
PropChunk(h) ==
  /\ ThreadAt(h, "p_chunk")
  /\ threads' = [threads EXCEPT ![h].wr = "writing", ![h].ev = "chunk",
                                ![h].i = @ + 1, ![h].pc = "p_check"]
  /\ UNCHANGED << active_streams, db, log >>
  /\ ThreadFrame

\* lines 575, 607, 622, 649, 670: the complete event, then the handler returns
EmitComplete(h) ==
  /\ ThreadAt(h, "emit_complete")
  /\ Emit(h, "complete", "finally")
  /\ UNCHANGED << active_streams, db >>
  /\ ThreadFrame

\* lines 561, 651, 661, 672: the error event, then the handler returns
EmitError(h) ==
  /\ ThreadAt(h, "emit_error")
  /\ Emit(h, "error", "finally")
  /\ UNCHANGED << active_streams, db >>
  /\ ThreadFrame

\* lines 568, 640, 667: the cancelled event, then the handler returns
EmitCancelled(h) ==
  /\ ThreadAt(h, "emit_cancelled")
  /\ Emit(h, "cancelled", "finally")
  /\ UNCHANGED << active_streams, db >>
  /\ ThreadFrame

\* runner() lines 709-712: finally: the session is popped, stream_end logged;
\* the thread ends and its locals are gone
ThreadFinally(h) ==
  /\ ThreadAt(h, "finally")
  /\ active_streams' = pop_stream(active_streams, threads[h].rid)
  /\ threads' = [threads EXCEPT ![h] =
       EndedThread(threads[h].rid, threads[h].tool,
                   IF Terminals(h) = {} THEN "exception"
                   ELSE threads[h].emitted[CHOOSE k \in Terminals(h) :
                                              \A j \in Terminals(h) : j <= k])]
  /\ log' = Log(log, "other")
  /\ UNCHANGED db
  /\ ThreadFrame

Outcomes == {"ok", "raise", "raise_in_try"}

\* the tools called without stream
SyncCalls == {"add_function", "list_functions"}

\* the tools/call requests of the clients: name, arguments, stream
ToolCalls ==
  { << "no_such_tool", AllArgs, FALSE >>, << "no_such_tool", {}, TRUE >>,
    << "add_function", {"name"}, FALSE >>, << "generate_function", {}, TRUE >>,
    << "list_functions", {}, TRUE >> }
  \cup { << name, AllArgs, TRUE >> : name \in { n \in ToolNames : Tools[n].streaming } }
  \cup { << name, AllArgs, FALSE >> : name \in SyncCalls }

ServerNext ==
  \/ \E m \in SimpleMethods : HandleSimple(m)
  \/ HandleShutdown
  \/ HandleParseError
  \/ HandleNonObject
  \/ \E rid \in Ids, c \in ToolCalls :
          HandleCallRejected(IF c[3] THEN rid ELSE ReqId(nread + 1), c[1], c[2], c[3])
  \/ \E rid \in Ids, c \in ToolCalls : c[3] /\ HandleCallStream(rid, c[1], c[2])
  \/ \E c \in ToolCalls, raises \in BOOLEAN, stored \in BOOLEAN :
          ~c[3] /\ HandleCallSync(c[1], c[2], raises, stored)
  \/ \E call_id \in Ids : HandleCancel(call_id)
  \/ ServeWriteBegin
  \/ ServeWrite
  \/ ServeEOF
  \/ \E h \in 1..MaxRequests, o \in Outcomes, total \in 0..MaxUnits : GenStart(h, o, total)
  \/ \E h \in 1..MaxRequests : GenCheck(h)
  \/ \E h \in 1..MaxRequests : GenChunk(h)
  \/ \E h \in 1..MaxRequests, raises \in BOOLEAN, stored \in BOOLEAN : GenAdd(h, raises, stored)
  \/ \E h \in 1..MaxRequests : GenStored(h)
  \/ \E h \in 1..MaxRequests, o \in Outcomes, total \in 0..MaxUnits : RunSetup(h, o, total)
  \/ \E h \in 1..MaxRequests : RunCheck(h)
  \/ \E h \in 1..MaxRequests, raises \in BOOLEAN : RunTest(h, raises)
  \/ \E h \in 1..MaxRequests, raises \in BOOLEAN : RunChunk(h, raises)
  \/ \E h \in 1..MaxRequests, o \in Outcomes, total \in 0..MaxUnits : PropSetup(h, o, total)
  \/ \E h \in 1..MaxRequests : PropCheck(h)
  \/ \E h \in 1..MaxRequests : PropChunk(h)
  \/ \E h \in 1..MaxRequests : WriteEnd(h)
  \/ \E h \in 1..MaxRequests : EmitLog(h)
  \/ \E h \in 1..MaxRequests : EmitComplete(h)
  \/ \E h \in 1..MaxRequests : EmitError(h)
  \/ \E h \in 1..MaxRequests : EmitCancelled(h)
  \/ \E h \in 1..MaxRequests : ThreadFinally(h)

\* the serve loop with every form of input line, batch lines included; the
\* steps are those of the thread that runs serve()
ServeNext ==
  \/ \E m \in SimpleMethods : HandleSimple(m)
  \/ HandleShutdown
  \/ HandleParseError
  \/ HandleNonObject
  \/ \E k \in 0..MaxBatch : BatchBegin(k)
  \/ \E rid \in Ids, c \in ToolCalls :
          HandleCallRejected(IF c[3] THEN rid ELSE ReqId(nread + 1), c[1], c[2], c[3])
  \/ \E rid \in Ids, c \in ToolCalls : c[3] /\ HandleCallStream(rid, c[1], c[2])
  \/ \E c \in ToolCalls, raises \in BOOLEAN, stored \in BOOLEAN :
          ~c[3] /\ HandleCallSync(c[1], c[2], raises, stored)
  \/ \E call_id \in Ids : HandleCancel(call_id)
  \/ ServeWriteBegin
  \/ ServeWrite
  \/ ServeEOF

RunnerNext ==
  \/ \E c \in Calls, e \in Exprs : EvalBegin(c, e)
  \/ \E c \in Calls : StartProcessTest(c)
  \/ \E c \in Calls : StartProcessSpawn(c)
  \/ \E c \in Calls : StartProcessFails(c)
  \/ \E c \in Calls : EvalLock(c)
  \/ \E c \in Calls : EvalWrite(c)
  \/ \E c \in Calls : EvalDone(c)
  \/ \E c \in Calls : EvalTimeout(c)
  \/ \E c \in Calls : ReaderLine(c)
  \/ \E c \in Calls : ReaderEOF(c)
  \/ \E c \in Calls : StopBegin(c)
  \/ \E c \in Calls : StopTerminate(c)
  \/ \E c \in Calls : StopClear(c)
  \/ \E c \in Calls : StopRemove(c)
  \/ \E p \in Pids : WorkerTake(p)
  \/ \E p \in Pids : WorkerEmit(p)
  \/ \E p \in Pids : ExternalKill(p)

\* ================================================ the global runner
\* start_global_julia, stop_global_julia and run_julia, with the steps of
\* eval and stop that read or write the process handle of an instance.
MaxThreads == 2
MaxRunners == 2
MaxWorkers == 3

Threads  == 1..MaxThreads
NoRunner == 0
NoThread == 0

GlobalOps == {"run_julia", "start_global_julia", "stop_global_julia"}

NoCaller == [pc |-> "idle", op |-> "none", runner |-> NoRunner, proc |-> NoProc]

\* lines 211-212: no instance, the lock free; no subprocess has been started
GlobalInit ==
  /\ global_runner = NoRunner
  /\ global_lock = NoThread
  /\ runners = << >>
  /\ workers_alive = {}
  /\ nworkers = 0
  /\ callers = [t \in Threads |-> NoCaller]

\* PersistentJuliaRunner.is_alive of instance r
runner_is_alive(r) ==
  runners[r].proc # NoProc /\ runners[r].proc \in workers_alive

\* the call of thread t returns; only start_global_julia hands the instance
\* to its caller, who may keep it
Return(t) ==
  [callers[t] EXCEPT !.pc = "idle", !.proc = NoProc,
                     !.runner = IF callers[t].op = "run_julia" THEN NoRunner ELSE @]

\* a thread calls one of the module's functions
GlobalCall(t, o) ==
  /\ callers[t].pc = "idle"
  /\ callers' = [callers EXCEPT ![t] = [@ EXCEPT !.pc = "global_lock", !.op = o]]
  /\ UNCHANGED << global_runner, global_lock, runners, workers_alive, nworkers,
                  runnerVars, serverVars, wrapVars, storeVars, runVars, lockVars >>

\* a thread calls eval of the instance start_global_julia returned to it
RunnerEval(t) ==
  /\ callers[t].pc = "idle"
  /\ callers[t].runner # NoRunner
  /\ callers' = [callers EXCEPT ![t] = [@ EXCEPT !.pc = "eval_alive", !.op = "eval"]]
  /\ UNCHANGED << global_runner, global_lock, runners, workers_alive, nworkers,
                  runnerVars, serverVars, wrapVars, storeVars, runVars, lockVars >>

\* start_global_julia lines 216-220 (run_julia line 232): under _global_lock
\* a new instance, whose constructor starts a subprocess, replaces a missing
\* or not alive one; the replaced instance is not stopped
replace_runner(g) == g = NoRunner \/ ~runner_is_alive(g)

StartGlobal(t) ==
  /\ callers[t].pc = "global_lock"
  /\ callers[t].op \in {"run_julia", "start_global_julia"}
  /\ global_lock = NoThread
  /\ IF replace_runner(global_runner)
     THEN /\ Len(runners) < MaxRunners
          /\ nworkers < MaxWorkers
          /\ runners' = Append(runners, [proc |-> nworkers + 1, lock |-> NoThread])
          /\ nworkers' = nworkers + 1
          /\ workers_alive' = workers_alive \cup {nworkers + 1}
          /\ global_runner' = Len(runners) + 1
     ELSE UNCHANGED << runners, nworkers, workers_alive, global_runner >>
  /\ callers' = [callers EXCEPT ![t] =
       [@ EXCEPT !.runner = global_runner',
                 !.pc = IF callers[t].op = "run_julia" THEN "eval_alive" ELSE "idle"]]
  /\ UNCHANGED << global_lock, runnerVars, serverVars, wrapVars, storeVars, runVars, lockVars >>

\* stop_global_julia lines 225-226: with _global_lock; no instance: return
StopGlobalLock(t) ==
  /\ callers[t].pc = "global_lock"
  /\ callers[t].op = "stop_global_julia"
  /\ global_lock = NoThread
  /\ IF global_runner = NoRunner
     THEN /\ callers' = [callers EXCEPT ![t] = Return(t)]
          /\ UNCHANGED global_lock
     ELSE /\ global_lock' = t
          /\ callers' = [callers EXCEPT ![t] = [@ EXCEPT !.pc = "stop_lock"]]
  /\ UNCHANGED << global_runner, runners, workers_alive, nworkers,
                  runnerVars, serverVars, wrapVars, storeVars, runVars, lockVars >>

\* stop lines 93-106 of the global instance: with self._lock; terminate,
\* wait, kill
GlobalStopTerminate(t) ==
  /\ callers[t].pc = "stop_lock"
  /\ runners[global_runner].lock = NoThread
  /\ IF runners[global_runner].proc = NoProc
     THEN /\ callers' = [callers EXCEPT ![t] = [@ EXCEPT !.pc = "stop_unset"]]
          /\ UNCHANGED << runners, workers_alive >>
     ELSE /\ runners' = [runners EXCEPT ![global_runner].lock = t]
          /\ workers_alive' = workers_alive \ {runners[global_runner].proc}
          /\ callers' = [callers EXCEPT ![t] = [@ EXCEPT !.pc = "stop_clear"]]
  /\ UNCHANGED << global_runner, global_lock, nworkers, runnerVars, serverVars, wrapVars, storeVars, runVars, lockVars >>

\* stop lines 107-114: self._proc = None, the lock is released
GlobalStopClear(t) ==
  /\ callers[t].pc = "stop_clear"
  /\ runners' = [runners EXCEPT ![global_runner] = [proc |-> NoProc, lock |-> NoThread]]
  /\ callers' = [callers EXCEPT ![t] = [@ EXCEPT !.pc = "stop_unset"]]
  /\ UNCHANGED << global_runner, global_lock, workers_alive, nworkers,
                  runnerVars, serverVars, wrapVars, storeVars, runVars, lockVars >>

\* stop_global_julia line 228: _global_runner = None, the lock is released
StopGlobalUnset(t) ==
  /\ callers[t].pc = "stop_unset"
  /\ global_runner' = NoRunner
  /\ global_lock' = NoThread
  /\ callers' = [callers EXCEPT ![t] = Return(t)]
  /\ UNCHANGED << runners, workers_alive, nworkers, runnerVars, serverVars, wrapVars, storeVars, runVars, lockVars >>

\* eval line 122 on the instance the thread holds: if not self.is_alive()
GlobalEvalAlive(t) ==
  /\ callers[t].pc = "eval_alive"
  /\ callers' = [callers EXCEPT ![t] =
       [@ EXCEPT !.pc = IF runner_is_alive(callers[t].runner)
                        THEN "eval_lock" ELSE "eval_start"]]
  /\ UNCHANGED << global_runner, global_lock, runners, workers_alive, nworkers,
                  runnerVars, serverVars, wrapVars, storeVars, runVars, lockVars >>

\* _start_process lines 48-49: if self._proc is not None: return
GlobalStartTest(t) ==
  /\ callers[t].pc = "eval_start"
  /\ callers' = [callers EXCEPT ![t] =
       [@ EXCEPT !.pc = IF runners[callers[t].runner].proc # NoProc
                        THEN "eval_lock" ELSE "eval_spawn"]]
  /\ UNCHANGED << global_runner, global_lock, runners, workers_alive, nworkers,
                  runnerVars, serverVars, wrapVars, storeVars, runVars, lockVars >>

\* _start_process lines 50-87: Popen, self._proc is the new subprocess
GlobalStartSpawn(t) ==
  /\ callers[t].pc = "eval_spawn"
  /\ nworkers < MaxWorkers
  /\ nworkers' = nworkers + 1
  /\ workers_alive' = workers_alive \cup {nworkers + 1}
  /\ runners' = [runners EXCEPT ![callers[t].runner].proc = nworkers + 1]
  /\ callers' = [callers EXCEPT ![t] = [@ EXCEPT !.pc = "eval_lock"]]
  /\ UNCHANGED << global_runner, global_lock, runnerVars, serverVars, wrapVars, storeVars, runVars, lockVars >>

\* eval lines 126-129: with self._lock: proc = self._proc
GlobalEvalLock(t) ==
  /\ callers[t].pc = "eval_lock"
  /\ runners[callers[t].runner].lock = NoThread
  /\ IF runners[callers[t].runner].proc = NoProc
     THEN /\ callers' = [callers EXCEPT ![t] = Return(t)]
          /\ UNCHANGED runners
     ELSE /\ runners' = [runners EXCEPT ![callers[t].runner].lock = t]
          /\ callers' = [callers EXCEPT ![t] =
               [@ EXCEPT !.pc = "eval_call", !.proc = runners[callers[t].runner].proc]]
  /\ UNCHANGED << global_runner, global_lock, workers_alive, nworkers,
                  runnerVars, serverVars, wrapVars, storeVars, runVars, lockVars >>

\* eval lines 131-207: the expression is written, the answer or the timeout
\* is awaited, the lock is released and eval returns
GlobalEvalCall(t) ==
  /\ callers[t].pc = "eval_call"
  /\ runners' = [runners EXCEPT ![callers[t].runner].lock = NoThread]
  /\ callers' = [callers EXCEPT ![t] = Return(t)]
  /\ UNCHANGED << global_runner, global_lock, workers_alive, nworkers,
                  runnerVars, serverVars, wrapVars, storeVars, runVars, lockVars >>

\* a worker subprocess is killed from outside
WorkerKilled(p) ==
  /\ p \in workers_alive
  /\ workers_alive' = workers_alive \ {p}
  /\ UNCHANGED << global_runner, global_lock, runners, nworkers, callers,
                  runnerVars, serverVars, wrapVars, storeVars, runVars, lockVars >>

GlobalNext ==
  \/ \E t \in Threads, o \in GlobalOps : GlobalCall(t, o)
  \/ \E t \in Threads : RunnerEval(t)
  \/ \E t \in Threads : StartGlobal(t)
  \/ \E t \in Threads : StopGlobalLock(t)
  \/ \E t \in Threads : GlobalStopTerminate(t)
  \/ \E t \in Threads : GlobalStopClear(t)
  \/ \E t \in Threads : StopGlobalUnset(t)
  \/ \E t \in Threads : GlobalEvalAlive(t)
  \/ \E t \in Threads : GlobalStartTest(t)
  \/ \E t \in Threads : GlobalStartSpawn(t)
  \/ \E t \in Threads : GlobalEvalLock(t)
  \/ \E t \in Threads : GlobalEvalCall(t)
  \/ \E p \in 1..MaxWorkers : WorkerKilled(p)

\* ==================================================== the wrapper alone
\* eval lines 131-147 applied to expressions of every length near zero and
\* near the threshold, with and without a newline
MaxLen == 12

WrapLens == (0..MaxLen) \cup ((WrapThreshold - MaxLen)..(WrapThreshold + MaxLen))

WrapExprs ==
  { [name |-> "text", nl |-> n, len |-> l, prints |-> << >>, ends |-> "value", text |-> "2"] :
      n \in BOOLEAN, l \in WrapLens } \ 
  { [name |-> "text", nl |-> TRUE, len |-> 0, prints |-> << >>, ends |-> "value", text |-> "2"] }

NoExpr == [name |-> "none"]

WrapInit ==
  /\ wrap_expr = NoExpr
  /\ wrap_sent = NoExpr

\* eval is called with the expression e
WrapCall(e) ==
  /\ wrap_expr' = e
  /\ wrap_sent' = NoExpr
  /\ UNCHANGED << runnerVars, serverVars, globalVars, storeVars, runVars, lockVars >>

\* lines 133-145: send_expr is computed and written with a newline
WrapWrite ==
  /\ wrap_expr # NoExpr
  /\ wrap_sent = NoExpr
  /\ wrap_sent' = send_expr(wrap_expr)
  /\ UNCHANGED << wrap_expr, runnerVars, serverVars, globalVars, storeVars, runVars, lockVars >>

WrapNext ==
  \/ \E e \in WrapExprs : WrapCall(e)
  \/ WrapWrite

\* ============================================== the reader and bad output
\* eval with expressions whose output holds lines that begin with a marker
\* and carry a text that is not base64, or bytes that cannot be decoded
ReaderExprs ==
  { [name |-> "1+1",     nl |-> FALSE, len |-> 3,  prints |-> << >>,      ends |-> "value", text |-> "2"],
    [name |-> "script",  nl |-> TRUE,  len |-> 20, prints |-> <<"out">>,  ends |-> "value", text |-> "3"],
    [name |-> "stray",   nl |-> FALSE, len |-> 30, prints |-> <<"<<<RESULT>>>@@@@">>,  ends |-> "value", text |-> "2"],
    [name |-> "stray2",  nl |-> FALSE, len |-> 30, prints |-> <<"<<<RESULT>>>Mg$==">>, ends |-> "value", text |-> "2"],
    [name |-> "badpad",  nl |-> FALSE, len |-> 30, prints |-> <<"<<<RESULT>>>Mg">>,    ends |-> "value", text |-> "2"],
    [name |-> "badpade", nl |-> FALSE, len |-> 30, prints |-> <<"<<<ERROR>>>Mg">>,     ends |-> "value", text |-> "2"],
    [name |-> "bytes",   nl |-> FALSE, len |-> 30, prints |-> <<"out", "\\xff">>,      ends |-> "value", text |-> "2"] }

ReaderNext ==
  \/ \E c \in Calls, e \in ReaderExprs : EvalBegin(c, e)
  \/ \E c \in Calls : EvalLock(c)
  \/ \E c \in Calls : EvalWrite(c)
  \/ \E c \in Calls : EvalDone(c)
  \/ \E c \in Calls : EvalTimeout(c)
  \/ \E c \in Calls : ReaderLine(c)
  \/ \E c \in Calls : ReaderEOF(c)
  \/ \E p \in Pids : WorkerTake(p)
  \/ \E p \in Pids : WorkerEmit(p)
  \/ \E p \in Pids : ExternalKill(p)

\* ============================================= eval under fair scheduling
\* eval with a worker that may hang and an expression larger than the pipe
LiveExprs ==
  { [name |-> "1+1",  nl |-> FALSE, len |-> 3,     prints |-> << >>, ends |-> "value", text |-> "2"],
    [name |-> "hang", nl |-> FALSE, len |-> 14,    prints |-> << >>, ends |-> "never", text |-> ""],
    [name |-> "big",  nl |-> TRUE,  len |-> 70000, prints |-> << >>, ends |-> "value", text |-> "3"] }

LiveNext ==
  \/ \E c \in Calls, e \in LiveExprs : EvalBegin(c, e)
  \/ \E c \in Calls : StartProcessTest(c)
  \/ \E c \in Calls : EvalLock(c)
  \/ \E c \in Calls : EvalWrite(c)
  \/ \E c \in Calls : EvalDone(c)
  \/ \E c \in Calls : EvalTimeout(c)
  \/ \E c \in Calls : ReaderLine(c)
  \/ \E c \in Calls : ReaderEOF(c)
  \/ \E p \in Pids : WorkerTake(p)
  \/ \E p \in Pids : WorkerEmit(p)
  \/ \E p \in Pids : ExternalKill(p)

\* every thread that is in eval or in a reader is scheduled again and again,
\* the wait on done_evt ends by the signal or by the timeout, and a worker
\* that is not hung goes on; nothing says that a worker is killed
LiveFairness ==
  /\ \A c \in Calls : WF_vars(StartProcessTest(c))
  /\ \A c \in Calls : WF_vars(EvalLock(c))
  /\ \A c \in Calls : WF_vars(EvalWrite(c))
  /\ \A c \in Calls : WF_vars(EvalDone(c) \/ EvalTimeout(c))
  /\ \A c \in Calls : WF_vars(ReaderLine(c))
  /\ \A c \in Calls : WF_vars(ReaderEOF(c))
  /\ \A p \in Pids : WF_vars(WorkerTake(p))
  /\ \A p \in Pids : WF_vars(WorkerEmit(p))

\* ==================================================== CodeDatabase
\* The functions of the store and their dependency lists, with the
\* operations that change them (src/code_db.py).
MaxFunctions == 3

MaxTests == 1

MaxTagged == 2

FunctionIds == 1..MaxFunctions

NoResult == [op |-> "none", args |-> << >>, kind |-> "none", cycles |-> << >>]

Result(o, a, k) == [op |-> o, args |-> a, kind |-> k, cycles |-> << >>]

\* CodeDatabase.__init__: no functions
StoreInit ==
  /\ functions = << >>
  /\ nfunctions = 0
  /\ store_result = NoResult
  /\ tags = {}
  /\ fn_tags = << >>
  /\ modules = {}
  /\ fn_modules = << >>
  /\ unit_tests = << >>
  /\ test_results = << >>

\* getattr(self.functions.get(id), 'dependencies', [])
dependencies(fs, id) == IF id \in DOMAIN fs THEN fs[id] ELSE << >>

\* x in list
Contains(list, x) == \E i \in 1..Len(list) : list[i] = x

\* add_dependency lines 275-284: has_cycle(start_id, target_id, visited); the
\* set visited is shared by the whole search, so it is returned with the
\* answer
RECURSIVE has_cycle(_, _, _, _)
RECURSIVE has_cycle_loop(_, _, _, _)
has_cycle(fs, start_id, target_id, visited) ==
  IF start_id = target_id
  THEN [found |-> TRUE, visited |-> visited]
  ELSE has_cycle_loop(fs, dependencies(fs, start_id), target_id, visited \cup {start_id})

\* lines 281-284: for dep_id in ...dependencies
has_cycle_loop(fs, deps, target_id, visited) ==
  IF deps = << >> THEN [found |-> FALSE, visited |-> visited]
  ELSE IF Head(deps) \in visited
       THEN has_cycle_loop(fs, Tail(deps), target_id, visited)
       ELSE LET r == has_cycle(fs, Head(deps), target_id, visited)
            IN  IF r.found THEN r
                ELSE has_cycle_loop(fs, Tail(deps), target_id, r.visited)

\* line 286: if has_cycle(depends_on_id, function_id)
closes_cycle_mutant(fs, function_id, depends_on_id) == function_id = depends_on_id

closes_cycle(fs, function_id, depends_on_id) ==
  has_cycle(fs, depends_on_id, function_id, {}).found

\* Function.add_dependency: appended when it is not in the list
append_dependency(deps, id) == IF Contains(deps, id) THEN deps ELSE Append(deps, id)

\* list.remove and the filter of delete_function line 125: the list without id
RECURSIVE without(_, _)
without(deps, id) ==
  IF deps = << >> THEN << >>
  ELSE IF Head(deps) = id THEN without(Tail(deps), id)
  ELSE << Head(deps) >> \o without(Tail(deps), id)

\* the keys of self.functions in the order of insertion
RECURSIVE keys_in_order(_)
keys_in_order(S) ==
  IF S = {} THEN << >>
  ELSE LET m == CHOOSE x \in S : \A y \in S : x <= y
       IN  << m >> \o keys_in_order(S \ {m})

\* stack.index(neigh)
index(stack, x) ==
  CHOOSE i \in 1..Len(stack) : stack[i] = x /\ \A j \in 1..(i - 1) : stack[j] # x

\* find_cycles lines 355-370: dfs(node) with visited, stack (onstack holds
\* the nodes of stack) and cycles
RECURSIVE dfs(_, _, _)
RECURSIVE dfs_loop(_, _, _)
dfs(graph, node, st) ==
  LET entered == [visited |-> st.visited \cup {node},
                  stack |-> Append(st.stack, node),
                  cycles |-> st.cycles]
      left == dfs_loop(graph, dependencies(graph, node), entered)
  IN  [left EXCEPT !.stack = SubSeq(@, 1, Len(@) - 1)]

\* lines 359-368: for neigh in graph.get(node, [])
dfs_loop(graph, neighs, st) ==
  IF neighs = << >> THEN st
  ELSE dfs_loop(graph, Tail(neighs),
         IF Head(neighs) \notin st.visited THEN dfs(graph, Head(neighs), st)
         ELSE IF Contains(st.stack, Head(neighs))
         THEN [st EXCEPT !.cycles =
                 Append(@, SubSeq(st.stack, index(st.stack, Head(neighs)), Len(st.stack))
                             \o << Head(neighs) >>)]
         ELSE st)

\* lines 372-374: for n in graph.keys(): if n not in visited: dfs(n)
RECURSIVE dfs_all(_, _, _)
dfs_all(graph, keys, st) ==
  IF keys = << >> THEN st
  ELSE dfs_all(graph, Tail(keys),
         IF Head(keys) \notin st.visited THEN dfs(graph, Head(keys), st) ELSE st)

\* lines 382-388: the trailing copy is removed, the smallest id comes first
normalize(c) ==
  LET d == IF c[1] = c[Len(c)] THEN SubSeq(c, 1, Len(c) - 1) ELSE c
      minidx == CHOOSE i \in 1..Len(d) :
                  /\ \A j \in 1..Len(d) : d[i] <= d[j]
                  /\ \A j \in 1..(i - 1) : d[j] # d[i]
  IN  SubSeq(d, minidx, Len(d)) \o SubSeq(d, 1, minidx - 1)

\* lines 377-392: the cycles without repetition
RECURSIVE unique(_, _)
unique(cycles, acc) ==
  IF cycles = << >> THEN acc
  ELSE unique(Tail(cycles),
         IF Head(cycles) = << >> \/ Contains(acc, normalize(Head(cycles))) THEN acc
         ELSE Append(acc, normalize(Head(cycles))))

\* CodeDatabase.find_cycles
find_cycles(fs) ==
  unique(dfs_all(fs, keys_in_order(DOMAIN fs),
                 [visited |-> {}, stack |-> << >>, cycles |-> << >>]).cycles,
         << >>)

\* a function with one more key
Extended(f, k, v) == [x \in (DOMAIN f) \cup {k} |-> IF x = k THEN v ELSE f[x]]

\* a function without a key
Restricted(f, k) == [x \in (DOMAIN f) \ {k} |-> f[x]]

\* the elements of a list
Elements(list) == { list[i] : i \in 1..Len(list) }

\* CodeDatabase.add_function: a new Function with a fresh id and no
\* dependencies; its modules are registered and its tags join the global set
AddFunction(mods, tgs) ==
  /\ nfunctions < MaxFunctions
  /\ nfunctions' = nfunctions + 1
  /\ functions' = Extended(functions, nfunctions + 1, << >>)
  /\ fn_modules' = Extended(fn_modules, nfunctions + 1, mods)
  /\ fn_tags' = Extended(fn_tags, nfunctions + 1, tgs)
  /\ unit_tests' = Extended(unit_tests, nfunctions + 1, 0)
  /\ modules' = modules \cup Elements(mods)
  /\ tags' = tags \cup Elements(tgs)
  /\ store_result' = Result("add_function", << nfunctions + 1 >>, "ok")
  /\ UNCHANGED << test_results, runnerVars, serverVars, globalVars, wrapVars, runVars, lockVars >>

\* CodeDatabase.add_dependency
AddDependency(function_id, depends_on_id) ==
  /\ IF function_id \notin DOMAIN functions
     THEN /\ store_result' = Result("add_dependency", << function_id, depends_on_id >>, "FunctionNotFound")
          /\ UNCHANGED functions
     ELSE IF depends_on_id \notin DOMAIN functions
     THEN /\ store_result' = Result("add_dependency", << function_id, depends_on_id >>, "DependencyNotFound")
          /\ UNCHANGED functions
     ELSE IF closes_cycle(functions, function_id, depends_on_id)
     THEN /\ store_result' = Result("add_dependency", << function_id, depends_on_id >>, "CircularDependency")
          /\ UNCHANGED functions
     ELSE /\ store_result' = Result("add_dependency", << function_id, depends_on_id >>, "ok")
          /\ functions' = [functions EXCEPT ![function_id] = append_dependency(@, depends_on_id)]
  /\ UNCHANGED << nfunctions, metaVars, runnerVars, serverVars, globalVars, wrapVars, runVars, lockVars >>

\* CodeDatabase.remove_dependency
RemoveDependency(function_id, depends_on_id) ==
  /\ IF function_id \notin DOMAIN functions
     THEN /\ store_result' = Result("remove_dependency", << function_id, depends_on_id >>, "FunctionNotFound")
          /\ UNCHANGED functions
     ELSE IF ~Contains(functions[function_id], depends_on_id)
     THEN /\ store_result' = Result("remove_dependency", << function_id, depends_on_id >>, "DependencyNotFound")
          /\ UNCHANGED functions
     ELSE /\ store_result' = Result("remove_dependency", << function_id, depends_on_id >>, "ok")
          /\ functions' = [functions EXCEPT ![function_id] = without(@, depends_on_id)]
  /\ UNCHANGED << nfunctions, metaVars, runnerVars, serverVars, globalVars, wrapVars, runVars, lockVars >>

\* delete_function lines 116-120: the tags of the function that no other
\* function carries
unused_tags_mutant(ft, function_id) == Elements(ft[function_id])

unused_tags(ft, function_id) ==
  { t \in Elements(ft[function_id]) :
      ~\E other \in (DOMAIN ft) \ {function_id} : Contains(ft[other], t) }

\* line 128: the results of the other functions
RECURSIVE results_without(_, _)
results_without(results, function_id) ==
  IF results = << >> THEN << >>
  ELSE IF Head(results).function_id = function_id
       THEN results_without(Tail(results), function_id)
       ELSE << Head(results) >> \o results_without(Tail(results), function_id)

\* CodeDatabase.delete_function: a Module has no list of functions, so the
\* modules are left as they are (lines 110-113); the unused tags leave the
\* global set, the id leaves the dependency lists of the other functions,
\* its test results are dropped, then the function is deleted.  The kind
\* "ok" is the return value True, "not_found" is False.
DeleteFunction(function_id) ==
  /\ IF function_id \notin DOMAIN functions
     THEN /\ store_result' = Result("delete_function", << function_id >>, "not_found")
          /\ UNCHANGED << functions, metaVars >>
     ELSE /\ store_result' = Result("delete_function", << function_id >>, "ok")
          /\ UNCHANGED modules
          /\ tags' = tags \ unused_tags(fn_tags, function_id)
          /\ functions' = [k \in (DOMAIN functions) \ {function_id} |->
                             without(functions[k], function_id)]
          /\ test_results' = results_without(test_results, function_id)
          /\ fn_tags' = Restricted(fn_tags, function_id)
          /\ fn_modules' = Restricted(fn_modules, function_id)
          /\ unit_tests' = Restricted(unit_tests, function_id)
  /\ UNCHANGED << nfunctions, runnerVars, serverVars, globalVars, wrapVars, runVars, lockVars >>

\* CodeDatabase.add_tag: raises ValueError for an unknown function
AddTag(function_id, tag) ==
  /\ IF function_id \notin DOMAIN functions
     THEN /\ store_result' = Result("add_tag", << function_id >>, "ValueError")
          /\ UNCHANGED << tags, fn_tags >>
     ELSE /\ store_result' = Result("add_tag", << function_id >>, "ok")
          /\ fn_tags' = [fn_tags EXCEPT ![function_id] = append_dependency(@, tag)]
          /\ tags' = tags \cup {tag}
  /\ UNCHANGED << functions, nfunctions, modules, fn_modules, unit_tests, test_results,
                  runnerVars, serverVars, globalVars, wrapVars, runVars, lockVars >>

\* CodeDatabase.add_unit_test: None for an unknown function
AddUnitTest(function_id) ==
  /\ IF function_id \notin DOMAIN functions
     THEN /\ store_result' = Result("add_unit_test", << function_id >>, "None")
          /\ UNCHANGED unit_tests
     ELSE /\ unit_tests[function_id] < MaxTests
          /\ store_result' = Result("add_unit_test", << function_id >>, "ok")
          /\ unit_tests' = [unit_tests EXCEPT ![function_id] = @ + 1]
  /\ UNCHANGED << functions, nfunctions, tags, fn_tags, modules, fn_modules, test_results,
                  runnerVars, serverVars, globalVars, wrapVars, runVars, lockVars >>

\* execute_tests lines 225-229: one result for each unit test of the function
run_tests(function_id, n) == [i \in 1..n |-> [function_id |-> function_id, test |-> i]]

\* CodeDatabase.execute_tests(function_id): the earlier results of the
\* function are dropped, then each unit test appends its result
ExecuteTests(function_id) ==
  /\ IF function_id \notin DOMAIN functions
     THEN /\ store_result' = Result("execute_tests", << function_id >>, "function_not_found")
          /\ UNCHANGED test_results
     ELSE /\ store_result' = Result("execute_tests", << function_id >>,
                                    IF unit_tests[function_id] = 0 THEN "no_tests_found" ELSE "ok")
          /\ test_results' = results_without(test_results, function_id)
                               \o run_tests(function_id, unit_tests[function_id])
  /\ UNCHANGED << functions, nfunctions, tags, fn_tags, modules, fn_modules, unit_tests,
                  runnerVars, serverVars, globalVars, wrapVars, runVars, lockVars >>

\* CodeDatabase.find_cycles is called
FindCycles ==
  /\ store_result' = [op |-> "find_cycles", args |-> << >>, kind |-> "ok",
                cycles |-> find_cycles(functions)]
  /\ UNCHANGED << functions, nfunctions, metaVars, runnerVars, serverVars, globalVars, wrapVars, runVars, lockVars >>

StoreNext ==
  \/ AddFunction(<< >>, << >>)
  \/ \E f \in FunctionIds, d \in FunctionIds : AddDependency(f, d)
  \/ \E f \in FunctionIds, d \in FunctionIds : RemoveDependency(f, d)
  \/ \E f \in FunctionIds : DeleteFunction(f)
  \/ FindCycles

\* the tags and modules a function is added with
TagNames == {"t1", "t2"}

TagLists == { << >>, << "t1" >>, << "t1", "t2" >> }

\* add_function while few functions have been added
AddTaggedFunction(mods, tgs) ==
  /\ nfunctions < MaxTagged
  /\ AddFunction(mods, tgs)

ModuleLists == { << >>, << "m1" >> }

DeleteNext ==
  \/ \E mods \in ModuleLists, tgs \in TagLists : AddTaggedFunction(mods, tgs)
  \/ \E f \in FunctionIds, t \in TagNames : AddTag(f, t)
  \/ \E f \in FunctionIds : AddUnitTest(f)
  \/ \E f \in FunctionIds : ExecuteTests(f)
  \/ \E f \in FunctionIds, d \in FunctionIds : AddDependency(f, d)
  \/ \E f \in FunctionIds : DeleteFunction(f)

\* ------------------------------------- run-tests calls on two threads
\* _stream_run_tests with a function_id, by its reads and writes of
\* code_db._db.test_results.  The events it emits and its cancellation
\* checks are in the stream threads of the server above.
RunCalls == {1, 2}

NoRun == [pc |-> "idle", fid |-> 0, i |-> 0, total |-> 0, filtered |-> << >>,
          stale |-> FALSE, appended |-> << >>]

RunInit == runs = [t \in RunCalls |-> NoRun]

RunFrame == UNCHANGED << functions, nfunctions, store_result, tags, fn_tags, modules,
                         fn_modules, unit_tests, runnerVars, serverVars, globalVars, wrapVars,
                         lockVars >>

\* lines 585-623: the function and its tests are collected; without tests
\* the handler emits complete and returns
StreamRunBegin(t, f) ==
  /\ runs[t].pc = "idle"
  /\ LET total == IF f \in DOMAIN functions THEN unit_tests[f] ELSE 0 IN
       runs' = [runs EXCEPT ![t] = [@ EXCEPT !.fid = f, !.total = total, !.i = 1,
                                             !.pc = IF total = 0 THEN "done" ELSE "filter"]]
  /\ UNCHANGED test_results
  /\ RunFrame

\* line 628, right-hand side: the list comprehension reads the list
\* and builds the list without the results of the function
StreamRunFilter(t) ==
  /\ runs[t].pc = "filter"
  /\ runs' = [runs EXCEPT ![t].filtered = results_without(test_results, runs[t].fid),
                          ![t].pc = "rebind"]
  /\ UNCHANGED test_results
  /\ RunFrame

\* line 628, the assignment: the attribute is bound to the new list;
\* a thread that has loaded the old list holds a list that is no longer
\* the store's
StreamRunRebind(t) ==
  /\ runs[t].pc = "rebind"
  /\ test_results' = runs[t].filtered
  /\ runs' = [u \in RunCalls |->
       IF u = t THEN [runs[u] EXCEPT !.pc = "test", !.filtered = << >>]
       ELSE IF runs[u].pc = "append" THEN [runs[u] EXCEPT !.stale = TRUE]
       ELSE runs[u]]
  /\ RunFrame

\* lines 642-643: ut.run_test returns a result or raises (the except clause
\* of line 650 emits error and the handler returns); then the attribute
\* test_results is loaded
StreamRunTest(t, raises) ==
  /\ runs[t].pc = "test"
  /\ runs' = [runs EXCEPT ![t].pc = IF raises THEN "done" ELSE "append",
                          ![t].stale = FALSE]
  /\ UNCHANGED test_results
  /\ RunFrame

\* line 643: append on the list that was loaded; lines 637-649: the next
\* test, or complete
StreamRunAppend(t) ==
  /\ runs[t].pc = "append"
  /\ LET res == [function_id |-> runs[t].fid, test |-> runs[t].i] IN
       /\ test_results' = IF runs[t].stale THEN test_results ELSE Append(test_results, res)
       /\ runs' = [runs EXCEPT ![t].appended = Append(@, res),
                               ![t].i = @ + 1, ![t].stale = FALSE,
                               ![t].pc = IF runs[t].i + 1 > runs[t].total THEN "done" ELSE "test"]
  /\ RunFrame

RunTestsNext ==
  \/ AddTaggedFunction(<< >>, << >>)
  \/ \E f \in FunctionIds : AddUnitTest(f)
  \/ \E t \in RunCalls, f \in FunctionIds : StreamRunBegin(t, f)
  \/ \E t \in RunCalls : StreamRunFilter(t)
  \/ \E t \in RunCalls : StreamRunRebind(t)
  \/ \E t \in RunCalls, raises \in BOOLEAN : StreamRunTest(t, raises)
  \/ \E t \in RunCalls : StreamRunAppend(t)

\* ------------------------------------------ the lock of the database file
\* persistence.py: save_db, load_db and vacuum_db of threads and processes on
\* one database path, by their steps on the lock file db_path + ".lock".
MaxLockers == 2
MaxOps == 2   \* calls per caller

Lockers == 1..MaxLockers

NoFile == 0

DbOps == {"save_db", "load_db", "vacuum_db"}

\* a caller outside a call: raised is how its last call ended, done the
\* calls it has made
NoLocker == [pc |-> "idle", op |-> "none", _fd |-> FALSE,
             exc |-> FALSE, raised |-> "none", done |-> 0]

LockInit ==
  /\ lock_path = NoFile
  /\ db_path = FALSE
  /\ lockers = [p \in Lockers |-> NoLocker]

LockFrame == UNCHANGED << runnerVars, serverVars, globalVars, wrapVars, storeVars, runVars >>

\* save_db lines 367-369, load_db lines 326-354, vacuum_db lines 409-413:
\* save_db always takes the lock; load_db and vacuum_db return without it
\* when the database file is missing, load_db after saving a legacy file
\* it found through save_db
DbCall(p, o, legacy) ==
  /\ lockers[p].pc = "idle"
  /\ lockers[p].done < MaxOps
  /\ LET locks == o = "save_db" \/ db_path \/ (o = "load_db" /\ legacy) IN
       lockers' = [lockers EXCEPT ![p] =
         IF locks
         THEN [NoLocker EXCEPT !.pc = "enter", !.done = lockers[p].done + 1,
                 !.op = IF o = "load_db" /\ ~db_path /\ legacy THEN "save_db" ELSE o]
         ELSE [NoLocker EXCEPT !.done = lockers[p].done + 1]]
  /\ UNCHANGED << lock_path, db_path >>
  /\ LockFrame

\* line 110, os.open with O_CREAT | O_EXCL: the file is created if and only
\* if it does not exist, in one step of the file system
o_excl_mutant(lock) == TRUE

o_excl(lock) == lock = NoFile

\* FileLock.__enter__ lines 105-117, one turn of the loop: the file is
\* created and the pid written, or the creation fails and the caller sleeps
\* or, its timeout passed, raises TimeoutError.  A write that fails raises
\* out of __enter__ with the file created.
LockEnter(p, wrote, elapsed) ==
  /\ lockers[p].pc = "enter"
  /\ IF o_excl(lock_path)
       THEN /\ lock_path' = p
            /\ lockers' = [lockers EXCEPT ![p] =
                 IF wrote THEN [@ EXCEPT !.pc = "inside", !._fd = TRUE]
                 ELSE [NoLocker EXCEPT !._fd = TRUE, !.raised = "OSError",
                                       !.done = lockers[p].done]]
       ELSE /\ lock_path' = lock_path
            /\ lockers' = [lockers EXCEPT ![p] =
                 IF elapsed
                 THEN [NoLocker EXCEPT !.raised = "TimeoutError",
                                       !.done = lockers[p].done]
                 ELSE @]
  /\ UNCHANGED db_path
  /\ LockFrame

\* the guarded block: save_db lines 370-378, load_db lines 355-358,
\* vacuum_db lines 414-421; it returns or raises, and a save or a rewrite
\* that returns has written the database file
DbOperate(p, raises) ==
  /\ lockers[p].pc = "inside"
  /\ db_path' = (db_path \/ (~raises /\ lockers[p].op = "save_db"))
  /\ lockers' = [lockers EXCEPT ![p].pc = "close", ![p].exc = raises]
  /\ UNCHANGED lock_path
  /\ LockFrame

\* FileLock.__exit__ lines 119-122: the descriptor is closed
LockClose(p) ==
  /\ lockers[p].pc = "close"
  /\ lockers' = [lockers EXCEPT ![p].pc = "unlink", ![p]._fd = FALSE]
  /\ UNCHANGED << lock_path, db_path >>
  /\ LockFrame

\* FileLock.__exit__ lines 123-129: the file at the path is unlinked if it
\* exists, whoever created it; the exception of the block propagates
LockUnlink(p) ==
  /\ lockers[p].pc = "unlink"
  /\ lock_path' = NoFile
  /\ lockers' = [lockers EXCEPT ![p] =
       [NoLocker EXCEPT !.raised = IF lockers[p].exc THEN "operation" ELSE "none",
                        !.done = lockers[p].done]]
  /\ UNCHANGED db_path
  /\ LockFrame

LockNext ==
  \/ \E p \in Lockers, o \in DbOps, legacy \in BOOLEAN : DbCall(p, o, legacy)
  \/ \E p \in Lockers, wrote \in BOOLEAN, elapsed \in BOOLEAN : LockEnter(p, wrote, elapsed)
  \/ \E p \in Lockers, raises \in BOOLEAN : DbOperate(p, raises)
  \/ \E p \in Lockers : LockClose(p)
  \/ \E p \in Lockers : LockUnlink(p)

Init == RunnerInit /\ ServerInit /\ GlobalInit /\ WrapInit /\ StoreInit /\ RunInit /\ LockInit

SpecLock == Init /\ [][LockNext]_vars

\* ------------------------------------------- two streaming calls at once
StreamingTools == { n \in ToolNames : Tools[n].streaming }

\* The server after it has read, acknowledged and answered two streaming
\* calls with the request ids None and 1, before either handler thread has
\* taken a step; nread counts the requests read from here on.
TwoStreamsInit ==
  /\ shutdown_flag = FALSE
  /\ \E a \in StreamingTools, b \in StreamingTools :
       /\ active_streams = start_stream_entry(start_stream_entry(<< >>, NoId, a), 1, b)
       /\ threads = << NewThread(NoId, a), NewThread(1, b) >>
  /\ serve_pc = "read"
  /\ cur_req = NoReq
  /\ resp = NoResp
  /\ nread = 0
  /\ db = [functions |-> 0, results |-> 0]
  /\ log_writable = TRUE
  /\ log = [request |-> 2, stream_event |-> 0, other |-> 3]
  /\ sys_stdout = [responses |-> 2, events |-> 0, ids |-> << NoId, 1 >>]
  /\ batch = NoBatch
  /\ sys_stdin = << NoId, 1 >>

CancelInit == RunnerInit /\ TwoStreamsInit /\ GlobalInit /\ WrapInit /\ StoreInit /\ RunInit
              /\ LockInit

\* the handler threads and the tools/cancel requests of the clients
CancelNext ==
  \/ \E call_id \in Ids : HandleCancel(call_id)
  \/ ServeWriteBegin
  \/ ServeWrite
  \/ \E h \in 1..2, o \in Outcomes, total \in 0..MaxUnits : GenStart(h, o, total)
  \/ \E h \in 1..2 : GenCheck(h)
  \/ \E h \in 1..2 : GenChunk(h)
  \/ \E h \in 1..2, raises \in BOOLEAN, stored \in BOOLEAN : GenAdd(h, raises, stored)
  \/ \E h \in 1..2 : GenStored(h)
  \/ \E h \in 1..2, o \in Outcomes, total \in 0..MaxUnits : RunSetup(h, o, total)
  \/ \E h \in 1..2 : RunCheck(h)
  \/ \E h \in 1..2, raises \in BOOLEAN : RunTest(h, raises)
  \/ \E h \in 1..2, raises \in BOOLEAN : RunChunk(h, raises)
  \/ \E h \in 1..2, o \in Outcomes, total \in 0..MaxUnits : PropSetup(h, o, total)
  \/ \E h \in 1..2 : PropCheck(h)
  \/ \E h \in 1..2 : PropChunk(h)
  \/ \E h \in 1..2 : WriteEnd(h)
  \/ \E h \in 1..2 : EmitLog(h)
  \/ \E h \in 1..2 : EmitComplete(h)
  \/ \E h \in 1..2 : EmitError(h)
  \/ \E h \in 1..2 : EmitCancelled(h)
  \/ \E h \in 1..2 : ThreadFinally(h)

SpecRunner == Init /\ [][RunnerNext]_vars

SpecServer == Init /\ [][ServerNext]_vars

SpecServe == Init /\ [][ServeNext]_vars

SpecGlobal == Init /\ [][GlobalNext]_vars

SpecWrap == Init /\ [][WrapNext]_vars

SpecReader == Init /\ [][ReaderNext]_vars

SpecLive == Init /\ [][LiveNext]_vars /\ LiveFairness

SpecStore == Init /\ [][StoreNext]_vars

SpecCancel == CancelInit /\ [][CancelNext]_vars

SpecRunTests == Init /\ [][RunTestsNext]_vars

SpecDelete == Init /\ [][DeleteNext]_vars

\* ============================================================ properties
\* the call has written its expression and has not returned
InFlight(c) == op[c] = "eval" /\ pc[c] = "wait"

\* the call holds the right to write to the worker or has written to it
AtWorker(c) == op[c] = "eval" /\ pc[c] \in {"write", "wait"}

\* what eval returns for e when the worker's answer to e is read in full
ExpectedResult(e) ==
  IF e.ends = "value" /\ Len(e.prints) > 0 THEN << TRUE, join(e.prints) >>
  ELSE << e.ends = "value", << e.text >> >>

\* C1: on one runner at most one eval call is between writing its
\* expression and returning, and no other call is writing or about to write
\* to the worker while a call is in flight.
C1_SingleFlight ==
  \A c, d \in Calls : (InFlight(c) /\ AtWorker(d)) => c = d

C1_Witness ==
  \E c, d \in Calls : c # d /\ InFlight(c) /\ op[d] = "eval" /\ pc[d] = "lock"

C3_NextCallOwnResult ==
  \A c \in Calls :
    (after_timeout[c] /\ path[c] = "marker") => ret[c] = ExpectedResult(expr[c])

\* C4: an eval call that finds the worker process dead starts a fresh
\* process before it sends its expression, and the result it reads is the
\* result of its expression.
C4_RestartOnDeath ==
  \A c \in Calls :
    (saw_dead[c] # NoProc /\ pc[c] = "returned")
      => /\ sent_to[c] # NoProc
         /\ sent_to[c] # saw_dead[c]
         /\ (path[c] = "marker" /\ ~after_timeout[c]) => ret[c] = ExpectedResult(expr[c])

\* C5: when the reader stopped at a marker, eval returns (true, the captured
\* lines joined by newline) if a line was captured and the marker is RESULT,
\* and (marker is RESULT, decoded payload) otherwise; an ERROR marker always
\* gives success = false with the error payload.
C5_MarkerResult ==
  \A c \in Calls :
    path[c] = "marker" =>
      LET isResult == got_line[c].marker = RESULT_MARKER
          payload  == b64decode_or_placeholder(got_line[c].body)
      IN /\ (Len(logs[c]) > 0 /\ isResult) => ret[c] = << TRUE, join(logs[c]) >>
         /\ ~(Len(logs[c]) > 0 /\ isResult) => ret[c] = << isResult, << payload >> >>
         /\ got_line[c].marker = ERROR_MARKER => ret[c] = << FALSE, << payload >> >>

C5_Witness ==
  \E c, d \in Calls :
    /\ path[c] = "marker" /\ ret[c] = << TRUE, << "out" >> >>
    /\ path[d] = "marker" /\ Len(logs[d]) > 0 /\ ret[d] = << FALSE, << "boom" >> >>

\* ------------------------------------------------- properties, server
Count(h, event) ==
  Cardinality({ k \in 1..Len(threads[h].emitted) : threads[h].emitted[k] = event })

Handlers == 1..Len(threads)

\* the stream handler of thread h has returned or raised
Returned(h) == threads[h].pc = "finally" /\ threads[h].wr = "idle"

\* C6: a call id is a key of active_streams exactly when the thread of a
\* streaming call with that id is running.
C6_SessionIffRunning ==
  \A id \in Ids :
    (id \in DOMAIN active_streams) <=> (\E h \in Handlers : threads[h].rid = id /\ Running(h))

\* C7: a streaming call emits at most one terminal event, nothing after it,
\* and when its handler has returned it has emitted a single terminal event.
C7_SingleTerminal ==
  \A h \in Handlers :
    /\ Terminals(h) \subseteq {Len(threads[h].emitted)}
    /\ Returned(h) => Cardinality(Terminals(h)) = 1

\* C8: the request being answered has a response with its id, and a
\* streaming call whose handler is over, whatever its outcome, has emitted
\* a terminal event.
C8_AlwaysAnswered ==
  /\ serve_pc = "write" => (resp # NoResp /\ resp.id = cur_req.id)
  /\ \A h \in Handlers : Returned(h) => Terminals(h) # {}

\* C9 as stated: a call whose cancellation was answered with cancelled: true
\* before its terminal event has, once it emitted its terminal event,
\* emitted exactly one cancelled event and no complete event.
C9_Original ==
  \A h \in Handlers :
    (threads[h].cancel_acked /\ Terminals(h) # {})
      => (Count(h, "cancelled") = 1 /\ Count(h, "complete") = 0)

\* C9: a handler that finds the cancel flag of its call set at one of its
\* cancellation checks emits exactly one cancelled event, as its last
\* event, and never a complete event; when its thread ends, its call id is
\* not a key of active_streams.
C9_CancelObserved ==
  /\ [](\A h \in Handlers :
          threads[h].saw_cancel =>
            /\ threads[h].cancel_acked
            /\ Count(h, "complete") = 0
            /\ Count(h, "error") = 0
            /\ Returned(h) => (Count(h, "cancelled") = 1
                               /\ threads[h].emitted[Len(threads[h].emitted)] = "cancelled"))
  /\ [][\A h \in Handlers :
          (Returned(h) /\ threads'[h].pc = "ended")
            => threads[h].rid \notin DOMAIN active_streams']_vars

C9_Witness ==
  \E h \in Handlers :
    /\ threads[h].saw_cancel /\ Returned(h)
    /\ Count(h, "chunk") > 0
    /\ threads[h].emitted[Len(threads[h].emitted)] = "cancelled"

Writers ==
  { h \in Handlers : threads[h].wr = "writing" }
    \cup (IF serve_pc = "writing" THEN {0} ELSE {})

\* C11: the writes to standard output are mutually exclusive: while the
\* serve loop or a handler thread is part-way through writing a line, no
\* other writer has begun a line.
C11_SerializedWrites == Cardinality(Writers) <= 1

\* the acknowledgement of the streaming call just dispatched is not yet
\* written in full
AckPending ==
  /\ serve_pc \in {"write", "writing"}
  /\ cur_req.method = "tools/call" /\ cur_req.stream
  /\ resp = Success(cur_req.id, [streaming |-> TRUE])

\* C12: a tools/call with stream: true on a streaming tool enters a session
\* with cancel = false under the request id, returns {streaming: true} with
\* that id and starts one thread for the stream handler; and until the
\* acknowledgement is written, the thread of the call has written no
\* tools/stream notification and has not begun to write one.
C12_AckBeforeEvents ==
  /\ [][(nread' = nread + 1 /\ cur_req'.method = "tools/call" /\ resp'.ok
          /\ cur_req'.stream) =>
          /\ active_streams'[cur_req'.id] = [cancel |-> FALSE, tool |-> cur_req'.name]
          /\ resp' = Success(cur_req'.id, [streaming |-> TRUE])
          /\ threads' = Append(threads, NewThread(cur_req'.id, cur_req'.name))]_vars
  /\ [](AckPending =>
          LET h == Len(threads)
          IN  Running(h) /\ threads[h].wr = "idle" /\ threads[h].emitted = << >>)

\* the methods handle_request knows
KnownMethods ==
  {"initialize", "shutdown", "ping", "tools/list", "tools/call", "tools/cancel"}

\* the step gives a request, a line or an element of a batch, to
\* handle_request
Dispatched ==
  nread' = nread + 1 /\ cur_req'.method \notin {"none", "<malformed>", "<not an object>"}

\* the step leaves the store, the sessions with their flags, the threads and
\* the shutdown flag as they are
NoSideEffect == UNCHANGED << db, active_streams, threads, shutdown_flag >>

\* C13: a request with an unknown method, and a tools/call that names an
\* unregistered tool, are answered with error -32601 under the request id,
\* and the store, the sessions, the cancel flags, the threads and the
\* shutdown flag stay as they are.
C13_NotFound ==
  [][(Dispatched /\ (\/ cur_req'.method \notin KnownMethods
                     \/ (cur_req'.method = "tools/call" /\ cur_req'.name \notin ToolNames)))
       => /\ resp'.id = cur_req'.id /\ ~resp'.ok /\ resp'.code = -32601
          /\ log' = Log(log, "request")
          /\ NoSideEffect]_vars

C13_Witness ==
  /\ serve_pc = "write" /\ cur_req.name = "no_such_tool" /\ cur_req.stream
  /\ resp = ErrorResponse(cur_req.id, -32601, "Unknown tool")
  /\ cur_req.id \in DOMAIN active_streams

\* the request is a tools/call of a registered tool
CallOfKnownTool(req) == req.method = "tools/call" /\ req.name \in ToolNames

\* C14: a tools/call of a registered tool that lacks a required argument is
\* answered with error -32602, with or without stream, and neither handler
\* of the tool runs: the store, the sessions and the threads stay as they
\* are and only the request is logged.
C14_MissingArgument ==
  [][(Dispatched /\ (IF CallOfKnownTool(cur_req')
                     THEN \E r \in Tools[cur_req'.name].required : r \notin cur_req'.arguments
                     ELSE FALSE))
       => /\ resp' = ErrorResponse(cur_req'.id, -32602, "Missing required argument")
          /\ log' = Log(log, "request")
          /\ NoSideEffect]_vars

C14_Witness ==
  /\ serve_pc = "write" /\ batch.on /\ Len(batch.resps) = 2
  /\ batch.resps[1] = ErrorResponse(ReqId(1), -32602, "Missing required argument")
  /\ cur_req.name = "generate_function" /\ cur_req.stream /\ cur_req.arguments = {}
  /\ batch.resps[2] = ErrorResponse(cur_req.id, -32602, "Missing required argument")
  /\ threads = << >> /\ db.functions = 0

\* C15: when the synchronous handler of a tools/call raises, handle_request
\* returns an error response under the request id and the serve loop goes
\* on: the response is written, the loop reads again unless a shutdown was
\* asked, and the loop never ends on a handler fault.
C15_HandlerFault ==
  /\ [][(Dispatched /\ cur_req'.raises)
          => /\ resp' = ErrorResponse(cur_req'.id, -32000, "Exception")
             /\ serve_pc' \in {"write", "batch"}]_vars
  /\ [][(serve_pc = "writing" /\ ~shutdown_flag /\ serve_pc' # serve_pc)
          => (serve_pc' = "read"
              /\ sys_stdout'.responses = sys_stdout.responses + 1)]_vars
  /\ [](serve_pc = "crashed" => ~cur_req.raises)

C15_Witness ==
  /\ serve_pc = "write" /\ batch.on /\ Len(batch.resps) = 2
  /\ batch.resps[1] = ErrorResponse(ReqId(1), -32000, "Exception")
  /\ batch.resps[2].ok /\ batch.resps[2].id = cur_req.id

\* C16: no input line ends the serve loop other than a shutdown request and
\* the end of input, and a line that is not JSON is answered with error
\* -32700 under a null id.
C16_EveryLineAnswered ==
  /\ serve_pc # "crashed"
  /\ cur_req.method = "<malformed>" => resp = ErrorResponse(NoId, -32700, "Parse error")

\* C17: a tools/call with stream: true of a registered tool that cannot
\* stream, its required arguments given, is answered with error -32602;
\* neither handler runs: the store, the sessions and the threads stay as
\* they are and only the request is logged.
C17_NoStreaming ==
  [][(Dispatched /\ cur_req'.stream
        /\ (IF CallOfKnownTool(cur_req')
            THEN /\ \A r \in Tools[cur_req'.name].required : r \in cur_req'.arguments
                 /\ (~Tools[cur_req'.name].streaming
                       \/ Tools[cur_req'.name].stream_handler = "none")
            ELSE FALSE))
       => /\ resp' = ErrorResponse(cur_req'.id, -32602, "does not support streaming")
          /\ log' = Log(log, "request")
          /\ NoSideEffect]_vars

C17_Witness ==
  /\ serve_pc = "write" /\ cur_req.name = "list_functions" /\ cur_req.stream
  /\ resp = ErrorResponse(cur_req.id, -32602, "does not support streaming")
  /\ cur_req.id \in DOMAIN active_streams

\* C18: the log holds a record for each request dispatched and for each
\* tools/stream event written to the output, also when the process has
\* stopped, and no record is ever removed.
C18_AuditComplete ==
  /\ [](serve_pc = "exited" => log.stream_event >= sys_stdout.events)
  /\ [][Dispatched => log'.request = log.request + 1]_vars
  /\ [][\A kind \in DOMAIN log : log'[kind] >= log[kind]]_vars

\* C20: a shutdown request sets the shutdown flag and is answered with a
\* success response; the flag is never reset; the write that follows is
\* done in full and then the loop is left; no line is read while the flag
\* is set, and after the loop is left nothing is dispatched or answered.
C20_Shutdown ==
  /\ [][(Dispatched /\ cur_req'.method = "shutdown")
          => (shutdown_flag' /\ resp' = Success(cur_req'.id, [empty |-> TRUE]))]_vars
  /\ [][shutdown_flag => shutdown_flag']_vars
  /\ [][(serve_pc = "writing" /\ shutdown_flag /\ serve_pc' # serve_pc)
          => (serve_pc' = "exited"
              /\ sys_stdout'.responses = sys_stdout.responses + 1)]_vars
  /\ [](shutdown_flag => serve_pc # "read")
  /\ [][serve_pc = "exited"
          => UNCHANGED << serve_pc, nread, cur_req, resp, batch, sys_stdout >>]_vars

C20_Witness ==
  /\ serve_pc = "exited" /\ shutdown_flag
  /\ nread < MaxRequests /\ sys_stdout.responses = 1

\* C21: a line that is an array of k requests: every element is given to
\* handle_request in array order, an element answered with an error does
\* not stop the elements after it, and the line that is written holds k
\* responses, the i-th under the id of the i-th request.
C21_BatchOrder ==
  /\ [](batch.on => /\ Len(batch.resps) = Len(batch.reqs)
                    /\ Len(batch.resps) + batch.left = batch.size
                    /\ \A i \in 1..Len(batch.resps) : batch.resps[i].id = batch.reqs[i])
  /\ []((batch.on /\ serve_pc \in {"write", "writing"}) => Len(batch.resps) = batch.size)
  /\ [][(serve_pc = "batch" /\ Dispatched)
          => /\ batch'.reqs = Append(batch.reqs, cur_req'.id)
             /\ batch'.resps = Append(batch.resps, resp')
             /\ serve_pc' = (IF batch.left > 1 THEN "batch" ELSE "write")]_vars
  /\ [][(serve_pc = "writing" /\ batch.on /\ serve_pc' # serve_pc)
          => sys_stdout'.ids = sys_stdout.ids \o batch.reqs]_vars

C21_Witness ==
  /\ serve_pc = "writing" /\ batch.on /\ batch.size = 2
  /\ ~batch.resps[1].ok /\ batch.resps[2].ok
  /\ batch.reqs[1] # batch.reqs[2]
  /\ batch.resps[1].id = batch.reqs[1] /\ batch.resps[2].id = batch.reqs[2]

\* a is an initial part of b
IsPrefix(a, b) == Len(a) <= Len(b) /\ \A i \in 1..Len(a) : a[i] = b[i]

\* C22: the responses are written in the order in which their requests were
\* read, one response for each request and under its id, also while the
\* threads of streaming calls write their events: what has been written is
\* an initial part of what has been read, at most one request is without its
\* response, and none is when the loop reads again or has ended.
C22_ResponseOrder ==
  /\ IsPrefix(sys_stdout.ids, sys_stdin)
  /\ Len(sys_stdin) <= Len(sys_stdout.ids) + 1
  /\ serve_pc \in {"read", "exited"} => sys_stdout.ids = sys_stdin
  /\ batch = NoBatch => sys_stdout.responses = Len(sys_stdout.ids)

C22_Witness ==
  /\ serve_pc = "writing" /\ Len(sys_stdout.ids) = 1 /\ Len(sys_stdin) = 2
  /\ sys_stdin[1] # sys_stdin[2]
  /\ \E h \in 1..Len(threads) :
       threads[h].wr = "writing" /\ Len(threads[h].emitted) > 0

\* C23: one worker is shared by the whole process: whatever the threads
\* call, at most one worker subprocess is alive, and the callers of
\* run_julia that are in eval on an instance that is alive are on the same
\* instance.
C23_OneWorker ==
  /\ Cardinality(workers_alive) <= 1
  /\ \A t1, t2 \in Threads :
       (/\ callers[t1].op = "run_julia" /\ callers[t1].pc = "eval_call"
        /\ callers[t2].op = "run_julia" /\ callers[t2].pc \in {"eval_lock", "eval_call"}
        /\ runner_is_alive(callers[t1].runner)
        /\ runner_is_alive(callers[t2].runner))
         => callers[t1].runner = callers[t2].runner

\* C24: when stop returns, the subprocess it found is not running, the
\* bootstrap file of that subprocess is deleted and the runner has no
\* process handle; a stop that finds no process handle changes nothing.
C24_StopStops ==
  [][\A c \in Calls :
       (op[c] = "stop" /\ pc[c] # "returned" /\ pc'[c] = "returned")
         => IF pc[c] = "stop_lock"
            THEN UNCHANGED << self_proc, bootstrap_path, files, alive >>
            ELSE /\ self_proc' = NoProc
                 /\ proc[c] \notin alive'
                 /\ proc[c] \notin files']_vars

\* C25: what eval writes to the worker's stdin for an expression is one
\* line: an expression with a newline in it or of more than 800 characters
\* is sent as the wrapper around its base64 text, which has no line break,
\* and an expression that is sent as it is has no newline in it.
C25_OneLine ==
  wrap_sent # NoExpr =>
    /\ wrap_sent.of = wrap_expr
    /\ stdin_lines(wrap_sent) = 1
    /\ wrap_sent.wrapped <=> (wrap_expr.nl \/ wrap_expr.len > 800)
    /\ ~wrap_sent.wrapped => ~wrap_expr.nl

C25_Witness ==
  /\ wrap_sent # NoExpr
  /\ wrap_sent.wrapped /\ wrap_expr.nl /\ wrap_expr.len = 1

\* C26: an eval never raises to its caller: whatever fails, the timeout, a
\* worker that died before or during the call, the write to its stdin, the
\* start or restart of the worker, eval returns a pair whose first part is
\* false and whose second part is a message.
C26_FailuresReturned ==
  \A c \in Calls :
    (op[c] = "eval" /\ pc[c] = "returned") =>
      /\ ret[c] # Raised
      /\ Len(ret[c]) = 2
      /\ path[c] \in {"timeout", "eof", "write_failed", "unavailable", "raised"}
           => ret[c][1] = FALSE

\* the text is base64: b64decode accepts it under validation
ValidBase64(b) == \E p \in B64Table : p[2] = b

\* C27: an eval whose reader stopped at a marker line with a text that is
\* not base64 returns the placeholder, with success as the marker says (the
\* captured lines are returned in its place only under the rule of
\* successful calls with output); an eval whose reader failed, by an
\* exception or by the end of the output before a marker, returns false
\* with a message of failure.
C27_BadPayload ==
  \A c \in Calls :
    (op[c] = "eval" /\ pc[c] = "returned") =>
      /\ (path[c] = "marker" /\ ~ValidBase64(got_line[c].body) /\ Len(logs[c]) = 0)
           => ret[c] = << got_line[c].marker = RESULT_MARKER, << "<base64 decode error>" >> >>
      /\ path[c] = "reader_error" => ret[c] = << FALSE, << "Reader thread error" >> >>
      /\ path[c] = "eof" => ret[c] = << FALSE, << TimeoutMessage >> >>

\* C28: under fair scheduling every eval that was called returns, whatever
\* the worker does: the caller that holds the lock waits for the reader no
\* longer than its timeout, and the callers that wait for the lock get it
\* when the calls before them have returned.
C28_EvalReturns ==
  \A c \in Calls : [](pc[c] # "idle" => <>(pc[c] = "returned"))

\* the lifecycle state of a runner instance with process handle h
WorkerState(h, running) ==
  IF h = NoProc THEN "Stopped"
  ELSE IF h \in running THEN "Running" ELSE "Dead"

\* the changes of state the lifecycle allows; a start is one step here, so
\* Starting lies inside the steps that end in Running.  Dead to Stopped is
\* what stop() does after it ended the worker.
LifecycleSteps ==
  { << "Stopped", "Running" >>, << "Running", "Dead" >>, << "Dead", "Running" >>,
    << "Dead", "Stopped" >> }

\* C29: the worker of a runner changes state only from Stopped through
\* Starting to Running, from Running to Dead and from Dead to Starting
\* (and to Stopped by stop); a worker that runs is never replaced, and a
\* worker is started only by a step of a call.
C29_Lifecycle ==
  /\ [][\A r \in 1..Len(runners) :
          LET a == WorkerState(runners[r].proc, workers_alive)
              b == WorkerState(runners'[r].proc, workers_alive')
          IN  \/ (a = b /\ runners'[r].proc = runners[r].proc)
              \/ (a # b /\ << a, b >> \in LifecycleSteps)]_vars
  /\ [][nworkers' # nworkers
          => \E t \in Threads : callers[t].pc \in {"global_lock", "eval_spawn"}
                                  /\ callers'[t].pc # callers[t].pc]_vars

\* b depends, directly or through other functions, on... : a chain of one
\* or more dependencies leads from a to b
RECURSIVE DependsOn(_, _, _)
DependsOn(fs, S, n) ==
  IF n = 0 THEN S
  ELSE DependsOn(fs, S \cup { b \in FunctionIds : \E a \in S : Contains(dependencies(fs, a), b) }, n - 1)

Reaches(fs, a, b) ==
  b \in DependsOn(fs, { x \in FunctionIds : Contains(dependencies(fs, a), x) }, MaxFunctions)

\* C30: in every state of the store no function depends on itself through
\* any chain of dependencies and find_cycles returns the empty list; an
\* add_dependency between two functions of the store that would close a
\* cycle, a function on itself included, returns CircularDependency and
\* changes no dependency list.
C30_Acyclic ==
  /\ [](\A f \in FunctionIds : ~Reaches(functions, f, f))
  /\ [](find_cycles(functions) = << >>)
  /\ [](store_result.op = "find_cycles" => store_result.cycles = << >>)
  /\ [][\A f, d \in DOMAIN functions :
          (/\ store_result' # store_result
           /\ store_result'.op = "add_dependency" /\ store_result'.args = << f, d >>
           /\ (f = d \/ Reaches(functions, d, f)))
            => (store_result'.kind = "CircularDependency" /\ functions' = functions)]_vars

C30_Witness ==
  /\ store_result = Result("add_dependency", << 3, 1 >>, "CircularDependency")
  /\ DOMAIN functions = {1, 2, 3}
  /\ functions[1] = << 2 >> /\ functions[2] = << 3 >> /\ functions[3] = << >>

\* C31: delete_function of a function of the store returns True, and then
\* the function is not in the store, no dependency list holds its id, no
\* test result of it remains, each of its tags is out of the global set
\* exactly when no remaining function carries it, and its modules are still
\* registered; for an unknown id it returns False and the store is unchanged.
C31_Delete ==
  [][\A f \in FunctionIds :
       (/\ store_result' # store_result
        /\ store_result'.op = "delete_function" /\ store_result'.args = << f >>)
         => IF f \in DOMAIN functions
            THEN /\ store_result'.kind = "ok"
                 /\ DOMAIN functions' = (DOMAIN functions) \ {f}
                 /\ f \notin DOMAIN fn_tags' /\ f \notin DOMAIN unit_tests'
                 /\ \A g \in DOMAIN functions' : ~Contains(functions'[g], f)
                 /\ \A i \in 1..Len(test_results') : test_results'[i].function_id # f
                 /\ \A t \in Elements(fn_tags[f]) :
                      (t \notin tags') <=> ~\E g \in DOMAIN fn_tags' : Contains(fn_tags'[g], t)
                 /\ \A m \in Elements(fn_modules[f]) : m \in modules'
            ELSE /\ store_result'.kind = "not_found"
                 /\ UNCHANGED << functions, nfunctions, metaVars >>]_vars

C31_Witness ==
  /\ store_result = Result("delete_function", << 1 >>, "ok")
  /\ DOMAIN functions = {2}
  /\ tags = {"t1"} /\ fn_tags[2] = << "t1" >>
  /\ modules = {"m1"} /\ fn_modules[2] = << >>
  /\ unit_tests[2] = 1 /\ Len(test_results) = 1

\* C32: once an eval call has returned its reader thread no longer reads
\* the worker's output, and at most one reader is attached to the output of
\* a worker at any time.
C32_ReaderBounded ==
  /\ \A c \in Calls : pc[c] = "returned" => reader[c] # "reading"
  /\ \A p \in Pids :
       Cardinality({ c \in Calls : reader[c] = "reading" /\ proc[c] = p }) <= 1

\* the chunk events a call has emitted since its cancellation flag was set
ChunksSinceFlag(h) ==
  Cardinality({ k \in threads[h].flagged_at..Len(threads[h].emitted) :
                  threads[h].emitted[k] = "chunk" })

\* the call of thread h is the only one with its request id
OwnId(h) == \A g \in 1..Len(threads) : g # h => threads[g].rid # threads[h].rid

\* C33: once the cancellation flag of a streaming call is set, its handler
\* finishes at most the unit of work in progress: it emits at most one
\* further chunk event and changes the store at most once, as part of that
\* unit and before the chunk of the unit.
C33_CancelStopsWork ==
  \A h \in 1..Len(threads) :
    (Running(h) /\ OwnId(h) /\ threads[h].flagged_at # 0)
      => /\ ChunksSinceFlag(h) <= 1
         /\ threads[h].stored <= 1
         /\ threads[h].stored = 1 => threads[h].tool = "mcp_autocode_run_tests"

\* C34: when the handler of a streaming call returns, after complete, error
\* or cancelled or by an exception, its request id leaves active_streams;
\* the step changes neither the serve loop nor another thread nor the entry
\* of another id.
C34_SessionRemoved ==
  [][\A h \in 1..Len(threads) :
       (threads[h].pc = "finally" /\ threads'[h].pc = "ended")
         => /\ threads[h].rid \notin DOMAIN active_streams'
            /\ threads'[h].outcome \in {"complete", "error", "cancelled", "exception"}
            /\ serve_pc' = serve_pc
            /\ \A g \in 1..Len(threads) : g # h => threads'[g] = threads[g]
            /\ \A k \in (DOMAIN active_streams) \ {threads[h].rid} :
                 k \in DOMAIN active_streams' /\ active_streams'[k] = active_streams[k]]_vars

C34_Witness ==
  \E h, g \in 1..Len(threads) :
    /\ threads[h].pc = "ended" /\ threads[h].outcome = "exception"
    /\ threads[h].rid \notin DOMAIN active_streams
    /\ Running(g) /\ threads[g].rid \in DOMAIN active_streams
    /\ serve_pc \notin {"exited", "crashed"}

\* C35: the step in which a streaming handler finishes leaves the session
\* entry, and with it the cancel flag, of every other streaming call that is
\* still running as it was, also of a call with the same request id.
C35_OwnSessionOnly ==
  [][\A h \in 1..Len(threads) :
       (threads[h].pc = "finally" /\ threads'[h].pc = "ended")
         => \A g \in 1..Len(threads) :
              (g # h /\ Running(g) /\ threads[g].rid \in DOMAIN active_streams)
                => /\ threads[g].rid \in DOMAIN active_streams'
                   /\ active_streams'[threads[g].rid] = active_streams[threads[g].rid]]_vars

\* the handler of thread h has found its cancellation flag set, or is
\* emitting or has emitted a cancelled event
ObservedCancel(h) ==
  \/ threads[h].saw_cancel
  \/ threads[h].ev = "cancelled"
  \/ \E k \in 1..Len(threads[h].emitted) : threads[h].emitted[k] = "cancelled"

\* C36: tools/cancel for a call id leaves the flag of every call with
\* another id as it was, and a running call observes cancellation or emits
\* a cancelled event only after a tools/cancel for its own id.
C36_CancelIsolated ==
  /\ [](\A h \in 1..Len(threads) :
          (Running(h) /\ ObservedCancel(h)) => threads[h].flagged_at # 0)
  /\ [][(serve_pc = "read" /\ cur_req'.method = "tools/cancel") =>
          \A h \in 1..Len(threads) :
            threads[h].rid # cur_req'.callId
              => /\ is_cancelled(active_streams', threads[h].rid)
                      = is_cancelled(active_streams, threads[h].rid)
                 /\ threads'[h] = threads[h]]_vars

C36_Witness ==
  \E h, g \in 1..Len(threads) :
    /\ threads[h].rid # threads[g].rid
    /\ threads[h].pc = "finally" /\ threads[h].emitted # << >>
    /\ threads[h].emitted[Len(threads[h].emitted)] = "cancelled"
    /\ threads[g].pc = "finally" /\ threads[g].emitted # << >>
    /\ threads[g].emitted[Len(threads[g].emitted)] = "complete"
    /\ threads[g].flagged_at = 0 /\ ~threads[g].saw_cancel

\* C37: stop terminates the worker only when no eval call is between taking
\* the lock and returning, and the process handle an eval call in flight
\* uses is never one that a stop has terminated and cleared.
C37_StopExcludesEval ==
  /\ [][\A s \in Calls :
          (pc[s] = "stop_lock" /\ pc'[s] = "stop_clear")
            => \A c \in Calls : ~AtWorker(c)]_vars
  /\ [](\A c, s \in Calls :
          (AtWorker(c) /\ op[s] = "stop" /\ proc[s] # NoProc
             /\ pc[s] \in {"stop_clear", "stop_remove", "returned"})
            => proc[c] # proc[s])

C37_Witness ==
  \E c, s \in Calls :
    /\ op[s] = "stop" /\ pc[s] = "stop_clear" /\ proc[s] # NoProc
    /\ op[c] = "eval" /\ pc[c] = "lock"

\* C38: when two run-tests calls for different functions have both
\* finished, every result that either of them appended is in test_results.
C38_NoLostResults ==
  (/\ \A t \in RunCalls : runs[t].pc = "done"
   /\ runs[1].fid # runs[2].fid)
    => \A t \in RunCalls : \A k \in 1..Len(runs[t].appended) :
         \E n \in 1..Len(test_results) : test_results[n] = runs[t].appended[k]

\* ---------------------------------------------------------------- C39
\* the callers that hold the lock: from the creation of the file by their
\* __enter__ to the unlink of their __exit__
Holders == { p \in Lockers : lockers[p].pc \in {"inside", "close", "unlink"} }

InSection == { p \in Lockers : lockers[p].pc = "inside" }

\* a caller leaves its section through the unlink of __exit__
Leaves(p) == lockers[p].pc = "unlink" /\ lockers'[p].pc = "idle"

\* a caller gives up in __enter__
GivesUp(p) == lockers[p].pc = "enter" /\ lockers'[p].pc = "idle"
              /\ lock_path' = lock_path

\* C39: at most one caller of save_db, load_db or vacuum_db is inside the
\* section guarded by the lock of one database, and the lock file is the
\* holder's; the holder that leaves, after a block that returned or one that
\* raised, leaves no lock file; a caller that gives up raises TimeoutError
\* and the lock file of the holder stays.
C39_FileLock ==
  /\ [](/\ Cardinality(Holders) <= 1
        /\ \A p \in Holders : lock_path = p)
  /\ [][\A p \in Lockers :
          /\ Leaves(p) => lock_path' = NoFile
          /\ GivesUp(p) => /\ lockers'[p].raised = "TimeoutError"
                           /\ lock_path # NoFile
                           /\ \A q \in Holders : lock_path' = q]_vars

\* a caller has given up with TimeoutError while the other was in its
\* section, and the other has left its section, whose block raised, through
\* __exit__: no lock file is left
C39_Witness ==
  \E p, q \in Lockers :
    /\ p # q
    /\ lockers[p] = [NoLocker EXCEPT !.raised = "TimeoutError", !.done = 1]
    /\ lockers[q] = [NoLocker EXCEPT !.raised = "operation", !.done = 1]
    /\ lock_path = NoFile



====
